---- MODULE Spec2Model ----
(***************************************************************************)
(* A model of the ns-router dispatch engine (src/src/coroutine.rs), its    *)
(* subscription tasks (src/src/subscr.rs, src/src/multisubscr.rs), the     *)
(* slot channel (src/src/slot.rs) and the suffix lookup.                   *)
(*                                                                         *)
(* The engine is one cooperative task.  One engine poll is the sequence    *)
(* EnginePoll, EngineRequest*, Poll...*, EngineReturn; the variable pc     *)
(* holds the position inside ResolverFuture::poll.  Clients, back-ends and *)
(* timers run between engine polls (pc = "idle").                          *)
(***************************************************************************)
EXTENDS Integers, Sequences, FiniteSets, TLC

Null == "Null"            \* the NullResolver handle

\* Option<T>: None is <<>>, Some(x) is <<x>>
NoneOpt == <<>>
Some(x) == <<x>>
IsSome(o) == Len(o) = 1
Unwrap(o) == o[1]

(***************************************************************************)
(* Bounds                                                                  *)
(***************************************************************************)
MaxInstalls == 2          \* configs the config stream yields
MaxSubs == 1
MaxQueries == 2
MaxYields == 2            \* items the back-ends' streams yield in total
MaxNameLen == 5           \* length of the names given to get_suffix
MaxKeyLen == 3            \* length of the suffix keys given to get_suffix
MaxKeys == 2              \* suffix keys of a config given to get_suffix
MaxIp == 2                \* distinct IP addresses

(***************************************************************************)
(* Names, values                                                           *)
(***************************************************************************)
Dot == "."
NameXC == <<"x", Dot, "c">>       \* "x.c": a name under the suffix "c"
NameH == <<"h">>                  \* "h": a name under no suffix
SuffixC == <<"c">>
Names == {NameXC, NameH}
DefaultPort == 80

\* An Address is a set of <<ip, port>> pairs.  An IpList is modelled by the
\* set of its addresses, each paired with NoPort.
NoPort == 0
Ips == 1..MaxIp
IpList(ip) == {<<ip, NoPort>>}
IpLists == {IpList(i) : i \in Ips}
with_port(list, port) == {<<a[1], port>> : a \in list}
BackendPort == 443
Addresses == {with_port(l, BackendPort) : l \in IpLists}
union(addrs) == UNION addrs

Backends == {"B1", "B2"}

(***************************************************************************)
(* Config (src/src/config.rs)                                              *)
(***************************************************************************)
NoSuffix == [host_resolver |-> Null, resolver |-> Null,
             host_subscriber |-> Null, subscriber |-> Null]
AllOf(b) == [host_resolver |-> b, resolver |-> b,
             host_subscriber |-> b, subscriber |-> b]

Config_new == [restart_delay |-> 1, convergence_delay |-> 1,
               hosts |-> <<>>, services |-> <<>>, suffixes |-> <<>>,
               root |-> NoSuffix]

Put(map, k, v) == [x \in DOMAIN map \cup {k} |-> IF x = k THEN v ELSE map[x]]
Get(map, k) == IF k \in DOMAIN map THEN Some(map[k]) ELSE NoneOpt

add_host(cfg, name, list) == [cfg EXCEPT !.hosts = Put(@, name, list)]
add_service(cfg, name, addr) == [cfg EXCEPT !.services = Put(@, name, addr)]
\* A suffix call that adds nothing
suffix_ignored(cfg, key) == cfg
suffix(cfg, key) ==
    IF key \in DOMAIN cfg.suffixes THEN cfg
    ELSE [cfg EXCEPT !.suffixes = Put(@, key, NoSuffix)]
add_suffix(cfg, key, b) == [cfg EXCEPT !.suffixes = Put(@, key, AllOf(b))]
set_fallthrough(cfg, b) == [cfg EXCEPT !.root = AllOf(b)]
convergence_delay(cfg, d) == [cfg EXCEPT !.convergence_delay = d]
restart_delay(cfg, d) == [cfg EXCEPT !.restart_delay = d]

(***************************************************************************)
(* get_suffix (src/src/coroutine.rs:91-101)                                *)
(***************************************************************************)
match_indices(name) == {i \in 1..Len(name) : name[i] = Dot}
After(name, idx) == SubSeq(name, idx + 1, Len(name))

RECURSIVE ScanFirstKey(_, _, _)
ScanFirstKey(cfg, name, idx) ==
    IF idx > Len(name) THEN cfg.root
    ELSE IF name[idx] = Dot /\ After(name, idx) \in DOMAIN cfg.suffixes
         THEN cfg.suffixes[After(name, idx)]
         ELSE ScanFirstKey(cfg, name, idx + 1)

RECURSIVE ScanLastKey(_, _, _)
ScanLastKey(cfg, name, idx) ==
    IF idx < 1 THEN cfg.root
    ELSE IF name[idx] = Dot /\ After(name, idx) \in DOMAIN cfg.suffixes
         THEN cfg.suffixes[After(name, idx)]
         ELSE ScanLastKey(cfg, name, idx - 1)

get_suffix_shortest(cfg, name) ==
    IF name \in DOMAIN cfg.suffixes THEN cfg.suffixes[name]
    ELSE ScanLastKey(cfg, name, Len(name))

get_suffix(cfg, name) ==
    IF name \in DOMAIN cfg.suffixes THEN cfg.suffixes[name]
    ELSE ScanFirstKey(cfg, name, 1)

(***************************************************************************)
(* State                                                                   *)
(***************************************************************************)
VARIABLES
    engine,       \* "running" until ResolverFuture::poll returns Ready
    pc,           \* position inside ResolverFuture::poll
    engWoken,     \* the engine task has been notified
    tableAlive,   \* some Router handle is alive
    curCfg,       \* table.cfg: Option<Config>
    cfgQueue,     \* items the config stream has ready
    cfgEnded,     \* the config stream ends after cfgQueue
    installs,     \* configs produced so far
    requests,     \* the request inbox
    futures,      \* ResolverFuture.futures (without the config future)
    slot,         \* the slot channels
    query,        \* the one-shot reply channels
    multi,        \* the MultiSubscr task
    submitted,    \* requests submitted so far
    procLog,      \* submission numbers of the requests processed, in order
    yields,       \* stream items produced so far
    suffixIn,     \* input of the get_suffix check
    suffixOut,    \* its result
    slotTrace,    \* the operations made on the slot under test, with their results
    chan,         \* a slot shared by a sender thread and a receiver thread
    fuse,         \* a Fuse adapter and the polls made on it
    auto,         \* a string given to AutoName::parse / resolve_auto, and the result
    ival          \* the stream of an interval subscriber and its resolver

vars == <<engine, pc, engWoken, tableAlive, curCfg, cfgQueue, cfgEnded,
          installs, requests, futures, slot, query, multi, submitted,
          procLog, yields, suffixIn, suffixOut, slotTrace, chan, fuse, auto,
          ival>>

aux == <<chan, fuse, auto, ival>>

\* Every restart of the multi-name task may create a watch slot per name of
\* its list, and a list holds at most two names (NameLists).
NSlots == MaxSubs + 1 + 2 * (1 + MaxInstalls + MaxYields)
Slots == 1..NSlots
Queries == 1..MaxQueries

NoItem == [t |-> "none", v |-> {}]
Val(v) == [t |-> "val", v |-> v]
NoLast == [val |-> NoneOpt, src |-> "none", cfg |-> NoneOpt]

\* A slot channel: Inner.value, Inner.task, whether the Receiver and a
\* Sender exist, who subscribed (host/name), whether the receiving task has
\* been notified, and what the consumer got (got, ended).  last records the
\* latest swap: its value, where it came from and the config then current.
FreeSlot == [used |-> FALSE, watch |-> FALSE, host |-> FALSE, name |-> <<>>,
             value |-> NoneOpt, task |-> FALSE, rx |-> FALSE, senders |-> 0,
             rxWoken |-> FALSE, last |-> NoLast, got |-> NoLast,
             ended |-> FALSE, cancel |-> FALSE]

NoReply == [t |-> "none", v |-> {}]
FreeQuery == [st |-> "free", kind |-> "none", name |-> <<>>, port |-> NoPort,
              reply |-> NoReply, cfg |-> NoneOpt, backend |-> "none"]

\* The part of the state the engine's methods change.
World == [futures |-> futures, slot |-> slot, query |-> query, multi |-> multi]

Min(S) == CHOOSE x \in S : \A y \in S : x <= y

\* The element of a singleton
Only(S) == CHOOSE x \in S : TRUE

(***************************************************************************)
(* Slot channel (src/src/slot.rs)                                          *)
(***************************************************************************)
\* task.notify() of the receiving task
Notify(w, s) ==
    IF w.slot[s].watch
    THEN [w EXCEPT !.futures = {IF f.kind = "Multi" THEN [f EXCEPT !.woken = TRUE]
                                ELSE f : f \in @}]
    ELSE [w EXCEPT !.slot[s].rxWoken = TRUE]

swap_ok(w, s) == w.slot[s].rx

\* A cell that keeps the first value until it is taken
swap_keep_first(w, s, v, src, cfg) ==
    LET w1 == [w EXCEPT !.slot[s].value = IF IsSome(@) THEN @ ELSE Some(v),
                        !.slot[s].task = FALSE,
                        !.slot[s].last = [val |-> Some(v), src |-> src,
                                          cfg |-> Some(cfg)]]
    IN IF w.slot[s].task THEN Notify(w1, s) ELSE w1

\* Sender::swap on a slot whose receiver is alive
swap(w, s, v, src, cfg) ==
    LET w1 == [w EXCEPT !.slot[s].value = Some(v), !.slot[s].task = FALSE,
                        !.slot[s].last = [val |-> Some(v), src |-> src,
                                          cfg |-> Some(cfg)]]
    IN IF w.slot[s].task THEN Notify(w1, s) ELSE w1

\* Sender::poll_cancel while the receiver is alive: the future that is
\* being polled is registered with the slot
poll_cancel(w, s) == [w EXCEPT !.slot[s].cancel = TRUE]

\* The future that holds the Sender of slot s is taken for a poll or has
\* completed: the registration of an earlier poll_cancel counts no more, a
\* notification for a completed future reaches nobody
Unregister(w, s) == [w EXCEPT !.slot[s].cancel = FALSE]

\* Sender::close, which Drop calls; the registration of the future that
\* held the Sender goes with it
close(w, s) ==
    LET w1 == [w EXCEPT !.slot[s].senders = IF @ > 0 THEN @ - 1 ELSE 0,
                        !.slot[s].task = FALSE, !.slot[s].cancel = FALSE]
    IN IF w.slot[s].rx /\ w.slot[s].task THEN Notify(w1, s) ELSE w1

(***************************************************************************)
(* Tasks of the engine                                                     *)
(***************************************************************************)
BaseTask == [kind |-> "none", woken |-> TRUE, notified |-> FALSE,
             host |-> FALSE, name |-> <<>>, tx |-> 0, subscriber |-> Null,
             item |-> NoItem, done |-> FALSE, port |-> NoPort,
             fired |-> FALSE]

\* ResolverFuture::spawn: a pushed future is polled in the same loop
spawn(w, task) ==
    [w EXCEPT !.futures = @ \cup {[task EXCEPT !.woken = TRUE]}]

\* A spawn that leaves the task the notifier it had
spawn_in_old_rx(w, task) == spawn(w, task)

\* SubscrFuture::spawn_in: the task takes the current update_rx
spawn_in(w, task) == spawn(w, [task EXCEPT !.notified = FALSE])

reply(w, q, value) ==
    [w EXCEPT !.query[q].reply = [t |-> "ok", v |-> value],
              !.query[q].st = "done"]

\* A failure that loses the kind of the error
fail_as_temporary(w, q, error) ==
    [w EXCEPT !.query[q].reply = [t |-> "TemporaryError", v |-> {}],
              !.query[q].st = "done"]
fail(w, q, error) ==
    [w EXCEPT !.query[q].reply = [t |-> error, v |-> {}],
              !.query[q].st = "done"]

(***************************************************************************)
(* Back-end adapter (src/src/internal_traits.rs)                           *)
(***************************************************************************)
\* Wrapper::resolve_host / resolve_host_port / resolve spawn a SendResult;
\* NullResolver answers NameNotFound at once.
Resolver_resolve(b, w, host, name, port, q) ==
    LET w1 == [w EXCEPT !.query[q].backend = b]
    IN IF b = Null THEN fail(w1, q, "NameNotFound")
       ELSE spawn([w1 EXCEPT !.query[q].st = "pending"],
                  [BaseTask EXCEPT !.kind = "SendResult", !.host = host,
                                   !.name = name, !.tx = q, !.port = port,
                                   !.subscriber = b])

\* Wrapper::subscribe / host_subscribe spawn a Subscr on a fresh stream;
\* NullResolver parks the slot in a no-op task.
Resolver_subscribe(b, w, host, name, tx) ==
    IF b = Null
    THEN spawn_in(w, [BaseTask EXCEPT !.kind = "NoOp", !.host = host,
                                      !.name = name, !.tx = tx])
    ELSE spawn(w, [BaseTask EXCEPT !.kind = "Subscr", !.host = host,
                                   !.name = name, !.tx = tx,
                                   !.subscriber = b])

(***************************************************************************)
(* Engine methods (src/src/coroutine.rs:110-169)                           *)
(***************************************************************************)
Static(cfg, host, name) ==
    IF host THEN Get(cfg.hosts, name) ELSE Get(cfg.services, name)

resolve_host_nostatic(w, cfg, name, q) ==
    Resolver_resolve(get_suffix(cfg, name).host_resolver, w, TRUE, name,
                     NoPort, q)

resolve_host(w, cfg, name, q) ==
    IF IsSome(Get(cfg.hosts, name))
    THEN reply(w, q, Unwrap(Get(cfg.hosts, name)))
    ELSE Resolver_resolve(get_suffix(cfg, name).host_resolver, w, TRUE, name,
                          NoPort, q)

resolve_host_port(w, cfg, name, port, q) ==
    IF IsSome(Get(cfg.hosts, name))
    THEN reply(w, q, with_port(Unwrap(Get(cfg.hosts, name)), port))
    ELSE Resolver_resolve(get_suffix(cfg, name).host_resolver, w, TRUE, name,
                          port, q)

resolve(w, cfg, name, q) ==
    IF IsSome(Get(cfg.services, name))
    THEN reply(w, q, Unwrap(Get(cfg.services, name)))
    ELSE Resolver_resolve(get_suffix(cfg, name).resolver, w, FALSE, name,
                          NoPort, q)

Subscriber(cfg, host, name) ==
    IF host THEN get_suffix(cfg, name).host_subscriber
    ELSE get_suffix(cfg, name).subscriber

NoOpTask(host, name, tx) ==
    [BaseTask EXCEPT !.kind = "NoOp", !.host = host, !.name = name, !.tx = tx]

\* ResolverFuture::host_subscribe (host) and ::subscribe
subscribe(w, cfg, host, name, tx) ==
    IF IsSome(Static(cfg, host, name))
    THEN IF swap_ok(w, tx)
         THEN spawn_in(swap(w, tx, Unwrap(Static(cfg, host, name)), "static", cfg),
                       NoOpTask(host, name, tx))
         ELSE close(w, tx)
    ELSE Resolver_subscribe(Subscriber(cfg, host, name), w, host, name, tx)

(***************************************************************************)
(* Single-name subscription task (src/src/subscr.rs)                       *)
(***************************************************************************)
\* Subscr::restart / HostSubscr::restart
Subscr_restart_always_keep(w, cfg, t) ==
    IF IsSome(Static(cfg, t.host, t.name))
    THEN IF swap_ok(w, t.tx)
         THEN spawn_in(swap(w, t.tx, Unwrap(Static(cfg, t.host, t.name)),
                            "static", cfg),
                       NoOpTask(t.host, t.name, t.tx))
         ELSE close(w, t.tx)
    ELSE IF t.done
         THEN Resolver_subscribe(Subscriber(cfg, t.host, t.name), w, t.host,
                                 t.name, t.tx)
         ELSE spawn_in(w, t)

\* A restart that subscribes anew whenever the name has no static entry
Subscr_restart_always_new(w, cfg, t) ==
    IF IsSome(Static(cfg, t.host, t.name))
    THEN IF swap_ok(w, t.tx)
         THEN spawn_in(swap(w, t.tx, Unwrap(Static(cfg, t.host, t.name)),
                            "static", cfg),
                       NoOpTask(t.host, t.name, t.tx))
         ELSE close(w, t.tx)
    ELSE Resolver_subscribe(Subscriber(cfg, t.host, t.name), w, t.host,
                            t.name, t.tx)
\* A restart that leaves the restarted task in the engine as well
Subscr_restart_keeps_old(w, cfg, t) ==
    Only({IF IsSome(Static(cfg, t.host, t.name))
          THEN IF swap_ok(w0, t.tx)
               THEN spawn_in(swap(w0, t.tx, Unwrap(Static(cfg, t.host, t.name)),
                                  "static", cfg),
                             NoOpTask(t.host, t.name, t.tx))
               ELSE close(w0, t.tx)
          ELSE IF Subscriber(cfg, t.host, t.name) # t.subscriber \/ t.done
               THEN Resolver_subscribe(Subscriber(cfg, t.host, t.name), w0, t.host,
                                       t.name, t.tx)
               ELSE spawn_in(w0, t) :
          w0 \in {[w EXCEPT !.futures = @ \cup {[t EXCEPT !.notified = FALSE,
                                                          !.woken = FALSE]}]}})

Subscr_restart(w, cfg, t) ==
    IF IsSome(Static(cfg, t.host, t.name))
    THEN IF swap_ok(w, t.tx)
         THEN spawn_in(swap(w, t.tx, Unwrap(Static(cfg, t.host, t.name)),
                            "static", cfg),
                       NoOpTask(t.host, t.name, t.tx))
         ELSE close(w, t.tx)
    ELSE IF Subscriber(cfg, t.host, t.name) # t.subscriber \/ t.done
         THEN Resolver_subscribe(Subscriber(cfg, t.host, t.name), w, t.host,
                                 t.name, t.tx)
         ELSE spawn_in(w, t)

\* HostNoOpSubscr::restart / NoOpSubscr::restart
NoOpSubscr_restart_parked(w, cfg, t) == spawn_in(w, t)

NoOpSubscr_restart(w, cfg, t) == subscribe(w, cfg, t.host, t.name, t.tx)

\* Subscr::poll / HostSubscr::poll.  The stream holds at most one item, so
\* the loop takes it and then finds the stream NotReady.  Fuse::poll latches
\* done on end and on error.
Subscr_poll_stop_on_end(w, cfg, t) ==
    IF t.done \/ t.item.t \in {"end", "err"}
    THEN [res |-> "Stop", w |-> w, t |-> t]
    ELSE IF t.item.t = "val"
    THEN IF swap_ok(w, t.tx)
         THEN [res |-> "Continue",
               w |-> poll_cancel(swap(w, t.tx, t.item.v, t.subscriber, cfg), t.tx),
               t |-> [t EXCEPT !.item = NoItem]]
         ELSE [res |-> "Stop", w |-> w, t |-> t]
    ELSE IF w.slot[t.tx].rx
         THEN [res |-> "Continue", w |-> poll_cancel(w, t.tx), t |-> t]
         ELSE [res |-> "Stop", w |-> w, t |-> t]

Subscr_poll(w, cfg, t) ==
    IF t.done
    THEN [res |-> "DelayRestart", w |-> w, t |-> t]
    ELSE IF t.item.t \in {"end", "err"}
    THEN [res |-> "DelayRestart", w |-> w,
          t |-> [t EXCEPT !.item = NoItem, !.done = TRUE]]
    ELSE IF t.item.t = "val"
    THEN IF swap_ok(w, t.tx)
         THEN [res |-> "Continue",
               w |-> poll_cancel(swap(w, t.tx, t.item.v, t.subscriber, cfg), t.tx),
               t |-> [t EXCEPT !.item = NoItem]]
         ELSE [res |-> "Stop", w |-> w, t |-> t]
    ELSE IF w.slot[t.tx].rx
         THEN [res |-> "Continue", w |-> poll_cancel(w, t.tx), t |-> t]
         ELSE [res |-> "Stop", w |-> w, t |-> t]

\* HostNoOpSubscr::poll / NoOpSubscr::poll
NoOpSubscr_poll(w, cfg, t) == [res |-> "Continue", w |-> w, t |-> t]

(***************************************************************************)
(* Multi-name subscription task (src/src/multisubscr.rs)                   *)
(***************************************************************************)
\* InternalName::HostPort(name, port) and InternalName::Service(name)
HostPort(name, port) == [host |-> TRUE, name |-> name, port |-> port]
Service(name) == [host |-> FALSE, name |-> name, port |-> NoPort]
ListPort == 8080
INameHost == HostPort(NameH, ListPort)
INameSvc == Service(NameXC)
\* The lists of the run; Router::subscribe_many pushes the names as they
\* come, so a list may hold a name twice
NameLists == {<<>>, <<INameHost>>, <<INameSvc>>, <<INameHost, INameSvc>>,
              <<INameSvc, INameSvc>>}

\* State: StaticHost(list, port), StaticAddr(addr), Host(rx, last, port),
\* Addr(rx, last)
StaticHost(list, port) == [kind |-> "StaticHost", rx |-> 0, v |-> Some(list), port |-> port]
StaticAddr(addr) == [kind |-> "StaticAddr", rx |-> 0, v |-> Some(addr), port |-> NoPort]
Host(rx, last, port) == [kind |-> "Host", rx |-> rx, v |-> last, port |-> port]
Addr(rx, last) == [kind |-> "Addr", rx |-> rx, v |-> last, port |-> NoPort]

State_addr_no_port(st) ==
    IF st.kind \in {"StaticHost", "Host"} /\ IsSome(st.v)
    THEN Some(with_port(Unwrap(st.v), DefaultPort))
    ELSE st.v

State_addr(st) ==
    IF st.kind \in {"StaticHost", "Host"} /\ IsSome(st.v)
    THEN Some(with_port(Unwrap(st.v), st.port))
    ELSE st.v

is_static(st) == st.kind \in {"StaticHost", "StaticAddr"}
is_complete(st) == IsSome(st.v)

\* emitted: a value was written to the consumer slot since the name list last
\* changed; elapsed: a convergence timer has fired since then
NoMulti == [st |-> "none", input |-> [t |-> "none", v |-> <<>>],
            inputReg |-> FALSE, current |-> <<>>, items |-> <<>>,
            timer |-> "none", tx |-> 0, emitted |-> FALSE,
            elapsed |-> FALSE]

MultiTask(m) == [BaseTask EXCEPT !.kind = "Multi", !.tx = m.tx]

Values(items) == {items[n] : n \in DOMAIN items}
Remove(map, k) == [x \in DOMAIN map \ {k} |-> map[x]]

\* MultiSubscr::send_current on a consumer slot whose receiver is alive
send_current(w, cfg) ==
    [swap(w, w.multi.tx,
          union({Unwrap(State_addr(x)) : x \in {y \in Values(w.multi.items) : IsSome(State_addr(y))}}),
          "multi", cfg) EXCEPT !.multi.emitted = TRUE]

AllocSlot(w) == Min({s \in DOMAIN w.slot : ~w.slot[s].used})

\* slot::channel() of a watch slot
channel(w, s, host, name) ==
    [w EXCEPT !.slot[s] = [FreeSlot EXCEPT !.used = TRUE, !.watch = TRUE,
                                           !.host = host, !.name = name,
                                           !.rx = TRUE, !.senders = 1]]

\* Drop of a Receiver: the future that registered poll_cancel on the Sender
\* is notified
DropRx(w, s) ==
    [w EXCEPT !.slot[s].rx = FALSE, !.slot[s].value = NoneOpt,
              !.slot[s].task = FALSE,
              !.futures = {IF f.kind \in {"Subscr", "Multi"} /\ f.tx = s
                              /\ w.slot[s].cancel
                           THEN [f EXCEPT !.woken = TRUE] ELSE f : f \in @}]

RECURSIVE DropRxAll(_, _)
DropRxAll(w, ss) ==
    IF ss = {} THEN w
    ELSE Only({DropRxAll(w1, rest) : w1 \in {DropRx(w, Min(ss))},
                                      rest \in {ss \ {Min(ss)}}})

LiveRx(items) == {items[n].rx : n \in {x \in DOMAIN items : ~is_static(items[x])}}

\* Drop of the MultiSubscr: its Sender, its watch Receivers
DropMulti(w) ==
    Only({[w1 EXCEPT !.multi = [NoMulti EXCEPT !.st = "gone", !.tx = w.multi.tx]] :
          w1 \in {DropRxAll(close(w, w.multi.tx), LiveRx(w.multi.items))}})

\* self.items.insert(name, entry): an entry the map held under the name is
\* dropped, with its Receiver
Insert(acc, name, entry) ==
    [acc EXCEPT !.items = Put(@, name, entry),
                !.w = IF name \in DOMAIN acc.items /\ ~is_static(acc.items[name])
                      THEN DropRx(@, acc.items[name].rx) ELSE @]

\* The for loop of MultiSubscr::restart over self.current
RECURSIVE RestartLoop(_, _, _, _)
RestartStep(acc, cfg, name) ==
    LET had == name \in DOMAIN acc.old
        a1 == [acc EXCEPT !.old = Remove(@, name)]
        st == Static(cfg, name.host, name.name)
        sub == Subscriber(cfg, name.host, name.name)
        s == AllocSlot(acc.w)
    IN IF had /\ ~is_static(acc.old[name])
       THEN [Insert(a1, name, acc.old[name]) EXCEPT
                       !.all_ok = @ /\ is_complete(acc.old[name])]
       ELSE IF IsSome(st)
       THEN Insert(a1, name, IF name.host THEN StaticHost(Unwrap(st), name.port)
                             ELSE StaticAddr(Unwrap(st)))
       ELSE IF sub # Null
       THEN Insert([a1 EXCEPT
                       !.w = Resolver_subscribe(sub, channel(@, s, name.host, name.name),
                                                name.host, name.name, s)],
                   name, IF name.host THEN Host(s, NoneOpt, name.port)
                         ELSE Addr(s, NoneOpt))
       ELSE a1

RestartLoop(acc, cfg, current, i) ==
    IF i > Len(current) THEN acc
    ELSE Only({RestartLoop(a, cfg, current, i + 1) :
               a \in {RestartStep(acc, cfg, current[i])}})

\* MultiSubscr::restart
\* The gate without the check of the list's length
RestartTail_emit_empty(m, acc, w1, cfg) ==
    IF acc.all_ok
    THEN IF swap_ok(w1, m.tx)
         THEN spawn_in(send_current(w1, cfg), MultiTask(m))
         ELSE DropMulti(w1)
    ELSE spawn_in([w1 EXCEPT !.multi.timer = "armed"], MultiTask(m))

RestartTail(m, acc, w1, cfg) ==
    IF acc.all_ok /\ Len(m.current) > 0
    THEN IF swap_ok(w1, m.tx)
         THEN spawn_in(send_current(w1, cfg), MultiTask(m))
         ELSE DropMulti(w1)
    ELSE IF cfg.convergence_delay = 0
    THEN IF swap_ok(w1, m.tx)
         THEN spawn_in([send_current(w1, cfg) EXCEPT !.multi.timer = "none"], MultiTask(m))
         ELSE DropMulti(w1)
    ELSE spawn_in([w1 EXCEPT !.multi.timer = "armed"], MultiTask(m))

MultiSubscr_restart(w, cfg) ==
    Only({Only({RestartTail(w.multi, acc, w1, cfg) :
                w1 \in {DropRxAll([acc.w EXCEPT !.multi.items = acc.items,
                                                !.multi.st = "active"],
                                  LiveRx(acc.old))}}) :
          acc \in {RestartLoop([w |-> w, items |-> <<>>, old |-> w.multi.items,
                                all_ok |-> TRUE],
                               cfg, w.multi.current, 1)}})

\* The loop of MultiSubscr::poll over self.items: Receiver::poll of every
\* watch slot
PollItem(w, st) ==
    IF ~is_static(st) /\ IsSome(w.slot[st.rx].value) THEN [st EXCEPT !.v = w.slot[st.rx].value]
    ELSE st

PollEntries(w) ==
    LET items == w.multi.items
        live == LiveRx(items)
    IN [w EXCEPT !.multi.items = [n \in DOMAIN items |-> PollItem(w, items[n])],
                 !.slot = [s \in DOMAIN @ |->
                             IF s \in live
                             THEN IF IsSome(@[s].value) THEN [@[s] EXCEPT !.value = NoneOpt]
                                  ELSE [@[s] EXCEPT !.task = TRUE]
                             ELSE @[s]]]

\* A poll that emits whenever something changed, whatever the timer
PollTail_ungated(w, cfg, w1, w2) ==
    LET m == w.multi
        updated == m.timer = "fired" \/ w2.multi.items # m.items
    IN IF ~w.slot[m.tx].rx THEN [res |-> "Stop", w |-> w]
       ELSE IF m.input.t \in {"end", "err"} THEN [res |-> "Stop", w |-> w1]
       ELSE IF m.input.t = "val" /\ m.current # m.input.v
       THEN [res |-> "Restart",
             w |-> [w1 EXCEPT !.multi.current = m.input.v,
                              !.multi.input = NoMulti.input,
                              !.multi.emitted = FALSE,
                              !.multi.elapsed = FALSE]]
       ELSE IF updated
       THEN [res |-> "Continue", w |-> send_current(w2, cfg)]
       ELSE [res |-> "Continue", w |-> w2]

\* MultiSubscr::poll
PollTail(w, cfg, w1, w2) ==
    LET m == w.multi
        fired == m.timer = "fired"
        ended == \E s \in LiveRx(m.items) :
                    ~IsSome(w.slot[s].value) /\ w.slot[s].senders = 0
        updated == fired \/ w2.multi.items # m.items
        complete == \A st \in Values(w2.multi.items) : is_complete(st)
        w3 == IF updated /\ w2.multi.timer # "none" /\ complete
              THEN [w2 EXCEPT !.multi.timer = "none"] ELSE w2
    IN IF ~w.slot[m.tx].rx THEN [res |-> "Stop", w |-> w]
       ELSE IF m.input.t \in {"end", "err"} THEN [res |-> "Stop", w |-> w1]
       ELSE IF m.input.t = "val" /\ m.current # m.input.v
       THEN [res |-> "Restart",
             w |-> [w1 EXCEPT !.multi.current = m.input.v,
                              !.multi.input = NoMulti.input,
                              !.multi.emitted = FALSE,
                              !.multi.elapsed = FALSE]]
       ELSE IF ended THEN [res |-> "Panic", w |-> w2]
       ELSE IF updated /\ w3.multi.timer = "none"
       THEN IF swap_ok(w3, m.tx)
            THEN [res |-> "Continue", w |-> send_current(w3, cfg)]
            ELSE [res |-> "Stop", w |-> w3]
       ELSE [res |-> "Continue", w |-> w3]

MultiSubscr_poll(w, cfg) ==
    Only({Only({Only({PollTail(w0, cfg, w1, w2) :
                w2 \in {PollEntries([w1 EXCEPT !.multi.input = NoMulti.input,
                                               !.multi.inputReg = (w.multi.input.t = "none")])}}) :
          w1 \in {[w0 EXCEPT !.multi.timer = IF @ = "fired" THEN "none" ELSE @]}}) :
          w0 \in {IF w.slot[w.multi.tx].rx THEN poll_cancel(w, w.multi.tx) ELSE w}})

(***************************************************************************)
(* Configs the config stream may yield                                     *)
(***************************************************************************)
StaticAddr1 == {<<1, 80>>}
StaticAddr2 == {<<2, 80>>}
CfgFall == set_fallthrough(Config_new, "B1")
CfgSuffix == add_suffix(CfgFall, SuffixC, "B2")
CfgStatic == add_service(add_host(CfgFall, NameH, IpList(1)), NameXC, StaticAddr1)
CfgStatic2 == add_service(add_host(CfgSuffix, NameH, IpList(2)), NameXC, StaticAddr2)
\* A config whose restart_delay is zero
CfgQuick == restart_delay(CfgFall, 0)
Configs == {Config_new, CfgFall, CfgSuffix, CfgStatic, CfgStatic2, CfgQuick}
\* Config::suffix with no handler set: the suffix "c" has no back-end
CfgBare == suffix(CfgFall, SuffixC)
BareConfigs == {CfgFall, CfgBare}

\* What the clients ask for
Targets == {[host |-> TRUE, name |-> NameH], [host |-> FALSE, name |-> NameXC]}
QueryKinds == {"ResolveHost", "ResolveHostPort", "Resolve"}
QueryPort == 8080

(***************************************************************************)
(* The engine: ResolverFuture::poll (src/src/coroutine.rs:172-263)         *)
(***************************************************************************)
Apply(world) ==
    \E w \in {world} :
        /\ futures' = w.futures
        /\ slot' = w.slot
        /\ query' = w.query
        /\ multi' = w.multi

Cfg == Unwrap(curCfg)

RECURSIVE CloseAll(_, _)
CloseAll(w, ss) ==
    IF ss = {} THEN w
    ELSE Only({CloseAll(w1, rest) : w1 \in {close(w, Min(ss))},
                                     rest \in {ss \ {Min(ss)}}})

\* Drop of the ResolverFuture: every request and every task is dropped, with
\* the senders they hold
DropEngine_keep_senders(w) == [w EXCEPT !.futures = {}]

DropEngine(w) ==
    Only({[w2 EXCEPT !.futures = {},
                     !.query = [q \in DOMAIN @ |->
                                  IF @[q].st \in {"queued", "pending"}
                                  THEN [@[q] EXCEPT !.st = "done",
                                                    !.reply = [t |-> "Canceled", v |-> {}]]
                                  ELSE @[q]]] :
          w2 \in {CloseAll(w1, {s \in DOMAIN w1.slot : w1.slot[s].senders = 1}) :
                    w1 \in {IF w.multi.st \in {"queued", "active"}
                            THEN DropMulti(w) ELSE w}}})

Terminate ==
    /\ engine' = "done"
    /\ pc' = "idle"
    /\ requests' = <<>>
    /\ Apply(DropEngine(World))

\* Continuation::restart of Wrapper<T> (src/src/subscr.rs:81-86)
Continuation_restart(w, cfg, t) ==
    CASE t.kind = "Subscr" -> Subscr_restart(w, cfg, t)
      [] t.kind = "NoOp" -> NoOpSubscr_restart(w, cfg, t)
      [] t.kind = "Multi" -> MultiSubscr_restart(w, cfg)

\* Start of poll: table.upgrade(), table.cfg.get()
EnginePoll ==
    /\ pc = "idle" /\ engine = "running" /\ engWoken
    /\ engWoken' = FALSE
    /\ IF ~tableAlive
       THEN Terminate
       ELSE /\ pc' = IF IsSome(curCfg) THEN "requests" ELSE "futures"
            /\ UNCHANGED <<engine, requests, futures, slot, query, multi>>
    /\ UNCHANGED <<tableAlive, curCfg, cfgQueue, cfgEnded, installs, submitted,
                   procLog, yields, suffixIn, suffixOut, slotTrace, aux>>

\* One request of the inbox
Dispatch(w, cfg, r) ==
    CASE r.kind = "ResolveHost" ->
            resolve_host([w EXCEPT !.query[r.tx].cfg = Some(cfg)], cfg, r.name, r.tx)
      [] r.kind = "ResolveHostPort" ->
            resolve_host_port([w EXCEPT !.query[r.tx].cfg = Some(cfg)], cfg, r.name, r.port, r.tx)
      [] r.kind = "Resolve" ->
            resolve([w EXCEPT !.query[r.tx].cfg = Some(cfg)], cfg, r.name, r.tx)
      [] r.kind = "HostSubscribe" -> subscribe(w, cfg, TRUE, r.name, r.tx)
      [] r.kind = "Subscribe" -> subscribe(w, cfg, FALSE, r.name, r.tx)
      [] r.kind = "Task" -> MultiSubscr_restart(w, cfg)

NextRequest(q) == Head(q)
RestRequests(q) == Tail(q)

\* The loop over self.requests.poll()
EngineRequest ==
    /\ pc \in {"requests", "repoll"}
    /\ IF requests = <<>>
       THEN /\ pc' = "futures"
            /\ UNCHANGED <<requests, futures, slot, query, multi, procLog>>
       ELSE /\ Apply(Dispatch(World, Cfg, NextRequest(requests)))
            /\ requests' = RestRequests(requests)
            /\ procLog' = Append(procLog, NextRequest(requests).n)
            /\ pc' = pc
    /\ UNCHANGED <<engine, engWoken, tableAlive, curCfg, cfgQueue, cfgEnded,
                   installs, submitted, yields, suffixIn, suffixOut, slotTrace, aux>>

\* Where poll continues after UpdateConfig: the branch without a config
\* returns self.poll(), which drains the inbox ("repoll" is the request loop
\* of that nested call)
PcAfterUpdate_no_repoll(hadCfg) == "futures"

PcAfterUpdate(hadCfg) == IF hadCfg THEN "futures" ELSE "repoll"

\* The new notifier replaces update_rx and the old one is signalled
\* An update signal that parked tasks do not hear
SignalUpdate_skip_parked(fs) ==
    {IF f.kind \in {"Subscr", "Multi"}
     THEN [f EXCEPT !.notified = TRUE, !.woken = TRUE] ELSE f : f \in fs}

SignalUpdate(fs) ==
    {IF f.kind \in {"Subscr", "NoOp", "Multi"}
     THEN [f EXCEPT !.notified = TRUE, !.woken = TRUE] ELSE f : f \in fs}

\* The config future: mapper (src/src/coroutine.rs:49-61) and the
\* UpdateConfig and Stop arms
PollConfig ==
    /\ pc = "futures" /\ engine = "running"
    /\ cfgQueue # <<>> \/ cfgEnded
    /\ IF cfgQueue # <<>>
       THEN /\ curCfg' = Some(Head(cfgQueue))
            /\ cfgQueue' = Tail(cfgQueue)
            /\ futures' = SignalUpdate(futures)
            /\ pc' = PcAfterUpdate(IsSome(curCfg))
            /\ UNCHANGED <<engine, requests, slot, query, multi>>
       ELSE /\ Terminate
            /\ UNCHANGED <<curCfg, cfgQueue>>
    /\ UNCHANGED <<engWoken, tableAlive, cfgEnded, installs, submitted, procLog,
                   yields, suffixIn, suffixOut, slotTrace, aux>>

EngineFrame == UNCHANGED <<engine, pc, engWoken, tableAlive, curCfg, cfgQueue,
                           cfgEnded, installs, requests, submitted, procLog,
                           yields, suffixIn, suffixOut, slotTrace, aux>>

\* A forwarding task that looks for a static entry in the current config
PollSendResult_static_now ==
    /\ pc = "futures" /\ engine = "running"
    /\ \E t \in futures :
        /\ t.kind = "SendResult" /\ t.woken
        /\ LET w == [World EXCEPT !.futures = @ \ {t}]
           IN Apply(CASE t.item.t = "none" ->
                           [w EXCEPT !.futures = @ \cup {[t EXCEPT !.woken = FALSE]}]
                      [] IsSome(Static(Cfg, t.host, t.name)) ->
                           reply(w, t.tx, Unwrap(Static(Cfg, t.host, t.name)))
                      [] t.item.t = "ok" ->
                           reply(w, t.tx, IF t.port = NoPort THEN t.item.v
                                          ELSE with_port(t.item.v, t.port))
                      [] OTHER -> fail(w, t.tx, t.item.t))
    /\ EngineFrame

\* SendResult::poll (src/src/internal_traits.rs:144-165), arm Done
PollSendResult ==
    /\ pc = "futures" /\ engine = "running"
    /\ \E t \in futures :
        /\ t.kind = "SendResult" /\ t.woken
        /\ LET w == [World EXCEPT !.futures = @ \ {t}]
           IN Apply(CASE t.item.t = "none" ->
                           [w EXCEPT !.futures = @ \cup {[t EXCEPT !.woken = FALSE]}]
                      [] t.item.t = "ok" ->
                           reply(w, t.tx, IF t.port = NoPort THEN t.item.v
                                          ELSE with_port(t.item.v, t.port))
                      [] OTHER -> fail(w, t.tx, t.item.t))
    /\ EngineFrame

\* Timeout::new(cfg.restart_delay, ..): a Timeout of zero has elapsed when it
\* is polled first, one of a positive delay when the reactor fires it
Timeout_elapsed(delay) == delay = 0

\* Arms that drop the task of a DelayRestart instead of keeping it behind a
\* timer
HandleResult_delay_drops(r, cfg, t) ==
    CASE r.res = "Continue" ->
            [r.w EXCEPT !.futures = @ \cup {[r.t EXCEPT !.woken = FALSE]}]
      [] r.res = "Stop" -> close(r.w, t.tx)
      [] r.res = "Restart" -> Continuation_restart(r.w, cfg, r.t)
      [] r.res = "DelayRestart" -> close(r.w, t.tx)

\* Arms that park the task of a DelayRestart behind the update notifier
\* instead of a timer
HandleResult_delay_hears_install(r, cfg, t) ==
    CASE r.res = "Continue" ->
            [r.w EXCEPT !.futures = @ \cup {[r.t EXCEPT !.woken = FALSE]}]
      [] r.res = "Stop" -> close(r.w, t.tx)
      [] r.res = "Restart" -> Continuation_restart(r.w, cfg, r.t)
      [] r.res = "DelayRestart" -> spawn_in(r.w, r.t)

\* Arms that take the Stop of a task for the Stop of the config future and
\* drop what the engine holds
HandleResult_stop_ends_all(r, cfg, t) ==
    CASE r.res = "Continue" ->
            [r.w EXCEPT !.futures = @ \cup {[r.t EXCEPT !.woken = FALSE]}]
      [] r.res = "Stop" -> DropEngine(r.w)
      [] r.res = "Restart" -> Continuation_restart(r.w, cfg, r.t)
      [] r.res = "DelayRestart" ->
            spawn(r.w, [r.t EXCEPT !.kind = "Timeout",
                                   !.fired = Timeout_elapsed(cfg.restart_delay)])

\* The engine's arms for what a SubscrFuture yields
HandleResult(r, cfg, t) ==
    CASE r.res = "Continue" ->
            [r.w EXCEPT !.futures = @ \cup {[r.t EXCEPT !.woken = FALSE]}]
      [] r.res = "Stop" -> close(r.w, t.tx)
      [] r.res = "Restart" -> Continuation_restart(r.w, cfg, r.t)
      [] r.res = "DelayRestart" ->
            spawn(r.w, [r.t EXCEPT !.kind = "Timeout",
                                   !.fired = Timeout_elapsed(cfg.restart_delay)])

\* SubscrFuture::poll (src/src/subscr.rs:88-120) of a Subscr or HostSubscr
PollSubscr ==
    /\ pc = "futures" /\ engine = "running"
    /\ \E t \in futures :
        /\ t.kind = "Subscr" /\ t.woken
        /\ LET w == Unregister([World EXCEPT !.futures = @ \ {t}], t.tx)
           IN Apply(IF t.notified THEN Continuation_restart(w, Cfg, t)
                    ELSE HandleResult(Subscr_poll(w, Cfg, t), Cfg, t))
    /\ EngineFrame

\* SubscrFuture::poll of a HostNoOpSubscr or NoOpSubscr
PollNoOp ==
    /\ pc = "futures" /\ engine = "running"
    /\ \E t \in futures :
        /\ t.kind = "NoOp" /\ t.woken
        /\ LET w == [World EXCEPT !.futures = @ \ {t}]
           IN Apply(IF t.notified THEN Continuation_restart(w, Cfg, t)
                    ELSE HandleResult(NoOpSubscr_poll(w, Cfg, t), Cfg, t))
    /\ EngineFrame

\* SubscrFuture::poll of the MultiSubscr
PollMulti ==
    /\ pc = "futures" /\ engine = "running"
    /\ \E t \in futures :
        /\ t.kind = "Multi" /\ t.woken
        /\ \E w \in {[World EXCEPT !.futures = @ \ {t}]} :
           \E r \in {IF t.notified THEN [res |-> "Restart", w |-> w]
                     ELSE MultiSubscr_poll(w, Cfg)} :
              CASE r.res = "Continue" ->
                      /\ Apply([r.w EXCEPT !.futures = @ \cup {[t EXCEPT !.woken = FALSE]}])
                      /\ engine' = engine
                [] r.res = "Stop" -> Apply(DropMulti(r.w)) /\ engine' = engine
                [] r.res = "Restart" ->
                      Apply(Continuation_restart(Unregister(r.w, t.tx), Cfg, t))
                         /\ engine' = engine
                [] r.res = "Panic" -> Apply(Unregister(r.w, t.tx)) /\ engine' = "panicked"
    /\ UNCHANGED <<pc, engWoken, tableAlive, curCfg, cfgQueue, cfgEnded,
                   installs, requests, submitted, procLog, yields, suffixIn,
                   suffixOut, slotTrace, aux>>

\* Timeout::poll: Ready once the timer has fired
TimeoutReady_at_once(t) == TRUE

TimeoutReady(t) == t.fired

\* The Timeout pushed for DelayRestart, and the Restart arm when it fires
PollTimeout ==
    /\ pc = "futures" /\ engine = "running"
    /\ \E t \in futures :
        /\ t.kind = "Timeout" /\ t.woken
        /\ LET w == [World EXCEPT !.futures = @ \ {t}]
           IN Apply(IF TimeoutReady(t)
                    THEN Continuation_restart(w, Cfg, [t EXCEPT !.kind = "Subscr", !.fired = FALSE])
                    ELSE [w EXCEPT !.futures = @ \cup {[t EXCEPT !.woken = FALSE]}])
    /\ EngineFrame

\* futures.poll() finds nothing ready: poll returns NotReady
EngineReturn ==
    /\ pc = "futures" /\ engine = "running"
    /\ cfgQueue = <<>> /\ ~cfgEnded
    /\ \A t \in futures : ~t.woken
    /\ pc' = "idle"
    /\ UNCHANGED <<engine, engWoken, tableAlive, curCfg, cfgQueue, cfgEnded,
                   installs, requests, futures, slot, query, multi, submitted,
                   procLog, yields, suffixIn, suffixOut, slotTrace, aux>>

(***************************************************************************)
(* Clients, back-ends, timers, the config stream                           *)
(***************************************************************************)
Request(kind, name, port, tx, n) ==
    [kind |-> kind, name |-> name, port |-> port, tx |-> tx, n |-> n]

\* An inbox that takes requests after the engine is gone
InboxOpen_always == TRUE

\* unbounded_send succeeds while the engine holds the receiving end
InboxOpen == engine = "running"

\* The engine task is registered with the inbox once a poll has read the
\* inbox to its end, which a poll does when it has a config
InboxRegistered == IsSome(curCfg)

\* The shortcut of Table::resolve_host / resolve_host_with_port / resolve
\* (src/src/internal.rs:50-120): the static value of the config in the cell
Table_shortcut(cell, k, n, port) ==
    IF IsSome(cell) /\ IsSome(Static(Unwrap(cell), k # "Resolve", n))
    THEN Some(IF k = "ResolveHostPort"
              THEN with_port(Unwrap(Static(Unwrap(cell), TRUE, n)), port)
              ELSE Unwrap(Static(Unwrap(cell), k # "Resolve", n)))
    ELSE NoneOpt

\* Router::resolve_host / resolve / resolve_auto on a host or service name
\* (src/src/router.rs:224-309), which send a request, or the same through
\* the Table (src/src/future.rs:29-46), which answers a static name at once
SubmitQuery ==
    /\ pc = "idle" /\ tableAlive
    /\ \E q \in Queries, k \in QueryKinds, n \in Names :
        /\ query[q].st = "free"
        /\ \A p \in Queries : p < q => query[p].st # "free"
        /\ LET port == IF k = "ResolveHostPort" THEN QueryPort ELSE NoPort
               rec == [FreeQuery EXCEPT !.kind = k, !.name = n, !.port = port]
           IN \E via \in {"router", "table"} :
              IF via = "table" /\ IsSome(Table_shortcut(curCfg, k, n, port))
              THEN /\ query' = [query EXCEPT ![q] =
                                  [rec EXCEPT !.st = "done", !.cfg = curCfg,
                                              !.reply = [t |-> "ok",
                                                         v |-> Unwrap(Table_shortcut(curCfg, k, n, port))]]]
                   /\ UNCHANGED <<requests, engWoken, submitted>>
              ELSE IF InboxOpen
              THEN /\ requests' = Append(requests, Request(k, n, port, q, submitted + 1))
                   /\ query' = [query EXCEPT ![q] = [rec EXCEPT !.st = "queued"]]
                   /\ engWoken' = (engWoken \/ InboxRegistered)
                   /\ submitted' = submitted + 1
              ELSE /\ query' = [query EXCEPT ![q] =
                                  [rec EXCEPT !.st = "done",
                                              !.reply = [t |-> "ResolverIsDown", v |-> {}]]]
                   /\ UNCHANGED <<requests, engWoken>>
                   /\ submitted' = submitted + 1
    /\ UNCHANGED <<engine, pc, tableAlive, curCfg, cfgQueue, cfgEnded, installs,
                   futures, slot, multi, procLog, yields, suffixIn, suffixOut, slotTrace, aux>>

ConsumerSlot(host, name) ==
    [FreeSlot EXCEPT !.used = TRUE, !.host = host, !.name = name, !.rx = TRUE,
                     !.senders = 1, !.rxWoken = TRUE]

\* Router::subscribe_host / subscribe (src/src/router.rs:311-343)
Subscribe ==
    /\ pc = "idle" /\ tableAlive
    /\ Cardinality({s \in Slots : slot[s].used /\ ~slot[s].watch /\ slot[s].name # <<>>}) < MaxSubs
    /\ \E tg \in Targets :
        LET s == AllocSlot(World)
        IN IF InboxOpen
           THEN /\ requests' = Append(requests,
                        Request(IF tg.host THEN "HostSubscribe" ELSE "Subscribe",
                                tg.name, NoPort, s, submitted + 1))
                /\ slot' = [slot EXCEPT ![s] = ConsumerSlot(tg.host, tg.name)]
                /\ engWoken' = (engWoken \/ InboxRegistered)
           ELSE /\ slot' = [slot EXCEPT ![s] = [ConsumerSlot(tg.host, tg.name) EXCEPT !.senders = 0]]
                /\ UNCHANGED <<requests, engWoken>>
    /\ submitted' = submitted + 1
    /\ UNCHANGED <<engine, pc, tableAlive, curCfg, cfgQueue, cfgEnded, installs,
                   futures, query, multi, procLog, yields, suffixIn, suffixOut, slotTrace, aux>>

\* Router::subscribe_many / subscribe_stream (src/src/router.rs:93-214)
SubscribeStream ==
    /\ pc = "idle" /\ tableAlive
    /\ multi.st = "none"
    /\ \E list \in NameLists :
        LET s == AllocSlot(World)
        IN IF InboxOpen
           THEN /\ requests' = Append(requests, Request("Task", <<>>, NoPort, s, submitted + 1))
                /\ slot' = [slot EXCEPT ![s] = ConsumerSlot(FALSE, <<>>)]
                /\ multi' = [NoMulti EXCEPT !.st = "queued", !.tx = s,
                                            !.input = [t |-> "val", v |-> list]]
                /\ engWoken' = (engWoken \/ InboxRegistered)
           ELSE /\ slot' = [slot EXCEPT ![s] = [ConsumerSlot(FALSE, <<>>) EXCEPT !.senders = 0]]
                /\ multi' = [NoMulti EXCEPT !.st = "gone", !.tx = s]
                /\ UNCHANGED <<requests, engWoken>>
    /\ submitted' = submitted + 1
    /\ UNCHANGED <<engine, pc, tableAlive, curCfg, cfgQueue, cfgEnded, installs,
                   futures, query, procLog, yields, suffixIn, suffixOut, slotTrace, aux>>

\* A poll that looks for the senders before it looks at the cell
Receiver_poll_end_first(sl) ==
    IF sl.senders = 0
    THEN [sl EXCEPT !.ended = TRUE, !.task = FALSE, !.rxWoken = FALSE]
    ELSE IF IsSome(sl.value)
    THEN [sl EXCEPT !.value = NoneOpt, !.got = sl.last]
    ELSE [sl EXCEPT !.task = TRUE, !.rxWoken = FALSE]

\* Receiver::poll (src/src/slot.rs:115-133): the cell after the poll
Receiver_poll(sl) ==
    IF IsSome(sl.value)
    THEN [sl EXCEPT !.value = NoneOpt, !.got = sl.last]
    ELSE IF sl.senders = 0
    THEN [sl EXCEPT !.ended = TRUE, !.task = FALSE, !.rxWoken = FALSE]
    ELSE [sl EXCEPT !.task = TRUE, !.rxWoken = FALSE]

\* The consumer polls its stream when it has been notified
ConsumerPoll ==
    /\ pc = "idle"
    /\ \E s \in Slots :
        /\ slot[s].used /\ ~slot[s].watch /\ slot[s].rx
        /\ slot[s].rxWoken /\ ~slot[s].ended
        /\ slot' = [slot EXCEPT ![s] = Receiver_poll(@)]
    /\ UNCHANGED <<engine, pc, engWoken, tableAlive, curCfg, cfgQueue, cfgEnded,
                   installs, requests, futures, query, multi, submitted,
                   procLog, yields, suffixIn, suffixOut, slotTrace, aux>>

\* The consumer drops its stream
ConsumerDrop ==
    /\ pc = "idle"
    /\ \E s \in Slots :
        /\ slot[s].used /\ ~slot[s].watch /\ slot[s].rx
        /\ Apply(DropRx(World, s))
        /\ engWoken' = (engWoken \/ slot[s].cancel)
    /\ UNCHANGED <<engine, pc, tableAlive, curCfg, cfgQueue, cfgEnded, installs,
                   requests, submitted, procLog, yields, suffixIn, suffixOut, slotTrace, aux>>

\* Every Router handle is dropped
DropRouter ==
    /\ pc = "idle" /\ tableAlive
    /\ tableAlive' = FALSE
    /\ engWoken' = (engWoken \/ InboxRegistered)
    /\ UNCHANGED <<engine, pc, curCfg, cfgQueue, cfgEnded, installs, requests,
                   futures, slot, query, multi, submitted, procLog, yields,
                   suffixIn, suffixOut, slotTrace, aux>>

\* The config stream yields a config
ConfigArriveFrom(cs) ==
    /\ pc = "idle" /\ ~cfgEnded /\ installs < MaxInstalls
    /\ \E c \in cs : cfgQueue' = Append(cfgQueue, c)
    /\ installs' = installs + 1
    /\ engWoken' = TRUE
    /\ UNCHANGED <<engine, pc, tableAlive, curCfg, cfgEnded, requests, futures,
                   slot, query, multi, submitted, procLog, yields, suffixIn,
                   suffixOut, slotTrace, aux>>

ConfigArrive == ConfigArriveFrom(Configs)

\* The config stream yields a config with a fallthrough back-end, with or
\* without the bare suffix "c"
ConfigArriveBare == ConfigArriveFrom(BareConfigs)

\* The config stream ends
ConfigEnd ==
    /\ pc = "idle" /\ ~cfgEnded
    /\ cfgEnded' = TRUE
    /\ engWoken' = TRUE
    /\ UNCHANGED <<engine, pc, tableAlive, curCfg, cfgQueue, installs, requests,
                   futures, slot, query, multi, submitted, procLog, yields,
                   suffixIn, suffixOut, slotTrace, aux>>

EnvFrame == UNCHANGED <<engine, pc, tableAlive, curCfg, cfgQueue, cfgEnded,
                        installs, requests, slot, query, submitted, procLog,
                        suffixIn, suffixOut, slotTrace, aux>>

\* A back-end's resolve future completes
BackendAnswer ==
    /\ pc = "idle"
    /\ \E t \in futures :
        /\ t.kind = "SendResult" /\ t.item.t = "none"
        /\ \E a \in {[t |-> "ok", v |-> v] : v \in IF t.host THEN IpLists ELSE Addresses}
                    \cup {[t |-> e, v |-> {}] : e \in {"NameNotFound", "TemporaryError"}} :
              futures' = (futures \ {t}) \cup {[t EXCEPT !.item = a, !.woken = TRUE]}
    /\ engWoken' = TRUE
    /\ UNCHANGED <<multi, yields>>
    /\ EnvFrame

\* A back-end's subscription stream yields a value, an error or its end
BackendYield ==
    /\ pc = "idle" /\ yields < MaxYields
    /\ \E t \in futures :
        /\ t.kind = "Subscr" /\ t.item.t = "none" /\ ~t.done
        /\ \E x \in {Val(v) : v \in IF t.host THEN IpLists ELSE Addresses}
                    \cup {[t |-> e, v |-> {}] : e \in {"end", "err"}} :
              futures' = (futures \ {t}) \cup {[t EXCEPT !.item = x, !.woken = TRUE]}
    /\ yields' = yields + 1
    /\ engWoken' = TRUE
    /\ UNCHANGED multi
    /\ EnvFrame

\* The restart_delay timer of a DelayRestart fires
TimerFire ==
    /\ pc = "idle"
    /\ \E t \in futures :
        /\ t.kind = "Timeout" /\ ~t.fired
        /\ futures' = (futures \ {t}) \cup {[t EXCEPT !.fired = TRUE, !.woken = TRUE]}
    /\ engWoken' = TRUE
    /\ UNCHANGED <<multi, yields>>
    /\ EnvFrame

\* A timer that wakes no task
WakeMulti_lost(fs) == fs
WakeMulti(fs) == {IF f.kind = "Multi" THEN [f EXCEPT !.woken = TRUE] ELSE f : f \in fs}

\* The convergence_delay timer fires
ConvergenceFire ==
    /\ pc = "idle"
    /\ multi.st = "active" /\ multi.timer = "armed"
    /\ multi' = [multi EXCEPT !.timer = "fired", !.elapsed = TRUE]
    /\ futures' = WakeMulti(futures)
    /\ engWoken' = TRUE
    /\ UNCHANGED yields
    /\ EnvFrame

\* The stream of name lists yields a list, an error or its end
InputYield ==
    /\ pc = "idle" /\ yields < MaxYields
    /\ multi.st = "active" /\ multi.input.t = "none"
    /\ \E x \in {[t |-> "val", v |-> l] : l \in NameLists}
                \cup {[t |-> e, v |-> <<>>] : e \in {"end", "err"}} :
          multi' = [multi EXCEPT !.input = x]
    /\ futures' = IF multi.inputReg THEN WakeMulti(futures) ELSE futures
    /\ engWoken' = (engWoken \/ multi.inputReg)
    /\ yields' = yields + 1
    /\ EnvFrame

(***************************************************************************)
(* Specification of the engine                                             *)
(***************************************************************************)
\* slot::channel(): the receiver holds the only Arc, the sender a Weak
ChanNew ==
    [value |-> NoneOpt, task |-> FALSE, strong |-> 1, weak |-> 1,
     spc |-> "idle", stask |-> FALSE, sent |-> 0,
     rpc |-> "ready", result |-> NoneOpt, notified |-> FALSE, got |-> <<>>]

\* Fuse::new
Fuse_new == [done |-> FALSE, log |-> <<>>]

\* No stream of an interval subscriber has been made
IntervalIdle ==
    [state |-> "Idle", fut |-> 0, last_value |-> NoneOpt, timer |-> "none",
     futs |-> <<>>, log |-> <<>>, res |-> <<>>, interval |-> 1]

\* No string has been parsed
AutoIdle == [in |-> <<>>, out |-> NoneOpt, sent |-> FALSE, calls |-> <<>>]

EngineInit ==
    /\ chan = ChanNew /\ fuse = Fuse_new /\ ival = IntervalIdle
    /\ engine = "running" /\ pc = "idle" /\ engWoken = TRUE
    /\ tableAlive = TRUE
    /\ curCfg = NoneOpt /\ cfgQueue = <<>> /\ cfgEnded = FALSE /\ installs = 0
    /\ requests = <<>> /\ futures = {}
    /\ slot = [s \in Slots |-> FreeSlot]
    /\ query = [q \in Queries |-> FreeQuery]
    /\ multi = NoMulti
    /\ submitted = 0 /\ procLog = <<>> /\ yields = 0
    /\ slotTrace = <<>>

Init ==
    /\ EngineInit
    /\ suffixIn = [name |-> <<>>, keys |-> {}] /\ suffixOut = NoneOpt
    /\ auto = AutoIdle

Next ==
    \/ EnginePoll \/ EngineRequest \/ PollConfig \/ PollSendResult
    \/ PollSubscr \/ PollNoOp \/ PollMulti \/ PollTimeout \/ EngineReturn
    \/ SubmitQuery \/ Subscribe \/ SubscribeStream \/ ConsumerPoll
    \/ ConsumerDrop \/ DropRouter \/ ConfigArrive \/ ConfigEnd
    \/ BackendAnswer \/ BackendYield \/ TimerFire \/ ConvergenceFire
    \/ InputYield \/ ConfigArriveBare

Spec == Init /\ [][Next]_vars

(***************************************************************************)
(* The same engine with one kind of client at a time                       *)
(***************************************************************************)
\* One-shot resolution only
NextResolve ==
    \/ EnginePoll \/ EngineRequest \/ PollConfig \/ PollSendResult
    \/ EngineReturn \/ SubmitQuery \/ DropRouter \/ ConfigArrive
    \/ ConfigEnd \/ BackendAnswer

SpecResolve == Init /\ [][NextResolve]_vars

\* Single-name subscriptions only
NextSubscr ==
    \/ EnginePoll \/ EngineRequest \/ PollConfig \/ PollSubscr \/ PollNoOp
    \/ PollTimeout \/ EngineReturn \/ Subscribe \/ ConsumerPoll
    \/ ConsumerDrop \/ DropRouter \/ ConfigArrive \/ ConfigEnd
    \/ BackendYield \/ TimerFire

SpecSubscr == Init /\ [][NextSubscr]_vars

\* The configs of the runs of a multi-name subscription: a fallthrough
\* back-end, static entries, a restart_delay of zero
MultiConfigs == {CfgFall, CfgStatic, CfgQuick}

\* A multi-name subscription whose consumer stays, under a config stream
\* that stays open
NextMultiLive ==
    \/ EnginePoll \/ EngineRequest \/ PollConfig \/ PollSubscr \/ PollNoOp
    \/ PollTimeout \/ PollMulti \/ EngineReturn \/ SubscribeStream \/ ConsumerPoll
    \/ ConfigArriveFrom(MultiConfigs) \/ BackendYield \/ TimerFire \/ ConvergenceFire
    \/ InputYield

SpecMultiLive == Init /\ [][NextMultiLive]_vars

(***************************************************************************)
(* Static entries answer one-shot queries                                  *)
(***************************************************************************)
StaticQuery(q) ==
    /\ IsSome(query[q].cfg)
    /\ \/ query[q].kind = "ResolveHost" /\ query[q].name \in DOMAIN Unwrap(query[q].cfg).hosts
       \/ query[q].kind = "Resolve" /\ query[q].name \in DOMAIN Unwrap(query[q].cfg).services

StaticValue(q) ==
    IF query[q].kind = "ResolveHost"
    THEN Unwrap(query[q].cfg).hosts[query[q].name]
    ELSE Unwrap(query[q].cfg).services[query[q].name]

\* C1: a resolve_host(n) or resolve(n) dequeued while a config with a static
\* entry for n is current is answered with exactly that entry, and no
\* back-end is invoked for it: no back-end is recorded for the query and no
\* SendResult task is spawned for it.
C1_StaticAnswered ==
    \A q \in Queries :
        StaticQuery(q) =>
            /\ query[q].st = "done"
            /\ query[q].reply = [t |-> "ok", v |-> StaticValue(q)]
            /\ query[q].backend = "none"
            /\ \A f \in futures : ~(f.kind = "SendResult" /\ f.tx = q)

C1_Witness ==
    \E q1, q2 \in Queries :
        /\ StaticQuery(q1) /\ query[q1].kind = "ResolveHost"
        /\ query[q1].reply = [t |-> "ok", v |-> IpList(1)]
        /\ StaticQuery(q2) /\ query[q2].kind = "Resolve"
        /\ query[q2].reply = [t |-> "ok", v |-> StaticAddr2]

(***************************************************************************)
(* get_suffix on its own                                                   *)
(***************************************************************************)
Alphabet == {"a", Dot}
Strings(n) == UNION {[1..k -> Alphabet] : k \in 0..n}

\* A Name: non-empty labels separated by single dots
ValidName(name) ==
    /\ Len(name) > 0
    /\ name[1] # Dot /\ name[Len(name)] # Dot
    /\ \A i \in 1..(Len(name) - 1) : ~(name[i] = Dot /\ name[i + 1] = Dot)

RootHandle == <<"*">>

\* A config whose suffix keys are bound to back-ends named after the keys
RECURSIVE SuffixCfg(_)
SuffixCfg(keys) ==
    IF keys = {} THEN set_fallthrough(Config_new, RootHandle)
    ELSE LET k == CHOOSE x \in keys : TRUE
         IN add_suffix(SuffixCfg(keys \ {k}), k, k)

SuffixInit ==
    /\ EngineInit
    /\ suffixIn \in {[name |-> n, keys |-> ks] :
                       n \in {x \in Strings(MaxNameLen) : ValidName(x)},
                       ks \in {y \in SUBSET Strings(MaxKeyLen) : Cardinality(y) <= MaxKeys}}
    /\ suffixOut = NoneOpt
    /\ auto = AutoIdle

ApplySuffix ==
    /\ suffixOut = NoneOpt
    /\ suffixOut' = Some(get_suffix(SuffixCfg(suffixIn.keys), suffixIn.name))
    /\ UNCHANGED <<engine, pc, engWoken, tableAlive, curCfg, cfgQueue, cfgEnded,
                   installs, requests, futures, slot, query, multi, submitted,
                   procLog, yields, suffixIn, slotTrace, aux>>

SpecSuffix == SuffixInit /\ [][ApplySuffix]_vars

\* The keys that equal the whole name or the part after one of its dots
MatchingKeys(in) ==
    {k \in in.keys :
        \/ k = in.name
        \/ \E i \in 1..Len(in.name) :
              /\ in.name[i] = Dot
              /\ Len(k) = Len(in.name) - i
              /\ \A j \in 1..Len(k) : k[j] = in.name[i + j]}

\* C2: get_suffix returns the back-end bound to the longest suffix key that
\* equals the whole name or the part of the name after one of its dots, and
\* the fallthrough back-end when there is no such key; a key that ends the
\* name in the middle of a label does not match.
C2_LongestSuffix ==
    IsSome(suffixOut) =>
        IF MatchingKeys(suffixIn) = {}
        THEN Unwrap(suffixOut) = AllOf(RootHandle)
        ELSE \E k \in MatchingKeys(suffixIn) :
                /\ \A m \in MatchingKeys(suffixIn) : Len(m) <= Len(k)
                /\ Unwrap(suffixOut) = AllOf(k)

\* Two keys match at two different dots and the longer one is returned
C2_Witness ==
    /\ suffixIn.name = <<"a", Dot, "a", Dot, "a">>
    /\ suffixIn.keys = {<<"a">>, <<"a", Dot, "a">>}
    /\ suffixOut = Some(AllOf(<<"a", Dot, "a">>))

(***************************************************************************)
(* Single-name subscriptions follow the current config                     *)
(***************************************************************************)
ConsumerSlots == {s \in Slots : slot[s].used /\ ~slot[s].watch /\ slot[s].name # <<>>}

\* What serves a name under a config: "static" or the back-end of its suffix
ServedBy(cfg, host, name) ==
    IF host
    THEN IF name \in DOMAIN cfg.hosts THEN "static"
         ELSE get_suffix(cfg, name).host_subscriber
    ELSE IF name \in DOMAIN cfg.services THEN "static"
         ELSE get_suffix(cfg, name).subscriber

Emitted(s) == slot'[s].last # slot[s].last

\* C3: every value written to a subscription's consumer slot comes from what
\* serves the name under the config current at the write (its static entry,
\* or the stream of the back-end the config routes the name to), so that
\* after an install that re-routes the name no value of the old back-end's
\* stream is emitted.
C3_EmitsFromCurrentRoute ==
    [][\A s \in ConsumerSlots :
          Emitted(s) =>
              /\ IsSome(curCfg')
              /\ slot'[s].last.src = ServedBy(Unwrap(curCfg'), slot[s].host, slot[s].name)
              /\ slot'[s].last.src = "static" =>
                    slot'[s].last.val = Some(Static(Unwrap(curCfg'), slot[s].host, slot[s].name)[1])]_vars

\* The consumer took a value of B1's stream, an install re-routed the name
\* to B2, and a value of B2's stream has been emitted
C3_Witness ==
    \E s \in ConsumerSlots :
        /\ slot[s].got.src = "B1"
        /\ slot[s].last.src = "B2"
        /\ IsSome(slot[s].value)

(***************************************************************************)
(* Static entries answer subscriptions                                     *)
(***************************************************************************)
AwaitingRestart(s) == \E f \in futures : f.kind = "Timeout" /\ f.tx = s
Queued(s) == \E i \in 1..Len(requests) : requests[i].tx = s
StaticNow(s) ==
    /\ IsSome(curCfg)
    /\ IsSome(Static(Cfg, slot[s].host, slot[s].name))
StaticValueNow(s) == Unwrap(Static(Cfg, slot[s].host, slot[s].name))

\* The consumer takes the value of its slot
Received(s) ==
    /\ IsSome(slot[s].value) /\ slot[s].rx
    /\ slot'[s].rx /\ slot'[s].value = NoneOpt

\* Between two polls of the running engine, a dispatched subscription whose
\* name has a static entry, and which does not await a restart delay, has
\* that entry as its latest value, delivered or waiting in the slot with the
\* consumer notified
C4_StaticIsLatest ==
    \A s \in ConsumerSlots :
        (/\ pc = "idle" /\ engine = "running"
         /\ slot[s].rx /\ ~Queued(s)
         /\ StaticNow(s) /\ ~AwaitingRestart(s)) =>
            /\ slot[s].last.src = "static"
            /\ slot[s].last.val = Some(StaticValueNow(s))
            /\ \/ slot[s].value = slot[s].last.val /\ slot[s].rxWoken
               \/ slot[s].value = NoneOpt /\ slot[s].got = slot[s].last

\* What the consumer receives while its name has a static entry is that entry
C4_ReceivesStatic ==
    \A s \in ConsumerSlots :
        (/\ Received(s) /\ engine = "running"
         /\ StaticNow(s) /\ ~AwaitingRestart(s)) =>
            slot[s].value = Some(StaticValueNow(s))

\* C4: a subscription on a name that has a static entry delivers the static
\* value first; after an install that changes the static value the next value
\* the consumer receives is the new static value, and a subscription started
\* after the install receives the new value first.
C4_StaticFirst == [](C4_StaticIsLatest) /\ [][C4_ReceivesStatic]_vars

\* The consumer took the static value of one config and the static value
\* of the next config waits in its slot
C4_Witness ==
    \E s \in ConsumerSlots :
        /\ pc = "idle" /\ engine = "running"
        /\ curCfg = Some(CfgStatic2)
        /\ slot[s].got.cfg = Some(CfgStatic)
        /\ slot[s].got.val = Some(StaticAddr1)
        /\ slot[s].value = Some(StaticAddr2)

(***************************************************************************)
(* A back-end stream that ends or fails                                    *)
(***************************************************************************)
\* While the engine runs, a consumer that keeps its stream has a sender
\* somewhere in the engine and has not seen the end of its stream
C5_SenderKept ==
    \A s \in ConsumerSlots :
        (engine = "running" /\ slot[s].rx) =>
            slot[s].senders = 1 /\ ~slot[s].ended

\* The poll of a task that finds the end or an error of its back-end stream
StreamFails(f) ==
    /\ pc = "futures" /\ engine' = "running" /\ cfgQueue' = cfgQueue
    /\ f.kind = "Subscr" /\ f.woken /\ ~f.notified
    /\ f.item.t \in {"end", "err"}
    /\ f \notin futures'

\* That poll leaves the consumer slot as it was, but for the registration of
\* the completed future, and parks the task, with its sender, behind a
\* restart timer, which has not elapsed unless restart_delay is zero
C5_DelayRestart ==
    \A f \in futures :
        StreamFails(f) =>
            /\ slot'[f.tx] = Unregister(World, f.tx).slot[f.tx]
            /\ \E g \in futures' :
                  /\ g.kind = "Timeout" /\ g.tx = f.tx
                  /\ g.fired = (Cfg.restart_delay = 0)
                  /\ g.done /\ g.item = NoItem
            /\ \A g \in futures' : g.tx = f.tx => g.kind = "Timeout"

\* C5: a back-end subscription stream that yields an error or ends never
\* makes the consumer's stream end or fail: the task keeps the sender of the
\* consumer slot and goes to DelayRestart, and the consumer sees no update.
C5_BackendFailureHidden == [](C5_SenderKept) /\ [][C5_DelayRestart]_vars

\* The back-end stream has ended, the task awaits its restart, and the
\* consumer, which took the last value and polled again, is pending
C5_Witness ==
    \E s \in ConsumerSlots :
        /\ pc = "idle" /\ engine = "running"
        /\ \E g \in futures : g.kind = "Timeout" /\ g.tx = s /\ g.done
        /\ slot[s].rx /\ slot[s].senders = 1 /\ slot[s].task
        /\ IsSome(slot[s].got.val) /\ ~slot[s].ended

(***************************************************************************)
(* Restart after the restart delay                                         *)
(***************************************************************************)
\* The executor polls a notified task and a poll runs to its end; a timer
\* that was set fires
EngineStep ==
    \/ EnginePoll \/ EngineRequest \/ PollConfig \/ PollSubscr \/ PollNoOp
    \/ PollTimeout \/ EngineReturn

FairSubscr ==
    /\ Init /\ [][NextSubscr]_vars
    /\ WF_vars(EngineStep) /\ WF_vars(TimerFire) /\ WF_vars(ConsumerPoll)

\* The slots single-name subscriptions get when there is no other client
SubscrSlots == 1..MaxSubs

Released(s) == engine # "running" \/ ~slot[s].rx

\* A fresh stream of the back-end the current config routes the name to
Resubscribed(s) ==
    \E g \in futures :
        /\ g.kind = "Subscr" /\ g.tx = s /\ ~g.done
        /\ IsSome(curCfg)
        /\ g.subscriber = ServedBy(Cfg, slot[s].host, slot[s].name)

\* The slot is parked in a no-op task: the current config has a static
\* entry for the name, which was written to the slot, or routes the name to
\* a back-end that offers no subscription
Parked(s) ==
    \E g \in futures :
        /\ g.kind = "NoOp" /\ g.tx = s
        /\ IsSome(curCfg)
        /\ \/ ServedBy(Cfg, slot[s].host, slot[s].name) = Null
           \/ /\ ServedBy(Cfg, slot[s].host, slot[s].name) = "static"
              /\ slot[s].last.val = Some(StaticValueNow(s))

\* No restart before the restart_delay timer has fired
C6_NotBeforeTimer ==
    \A f \in futures :
        (f.kind = "Timeout" /\ ~f.fired /\ engine' = "running") =>
            \E g \in futures' : g.kind = "Timeout" /\ g.tx = f.tx /\ g.done

\* C6 as stated: after a back-end stream ended or failed, while the consumer
\* keeps its slot and the engine runs, a fresh stream is eventually requested
\* from a back-end, and never before the restart_delay timer has fired.
C6_AlwaysResubscribed ==
    /\ \A s \in SubscrSlots : AwaitingRestart(s) ~> (Resubscribed(s) \/ Released(s))
    /\ [][C6_NotBeforeTimer]_vars

\* C6, amended: after a back-end stream ended or failed, while the consumer
\* keeps its slot and the engine runs, the subscription is eventually
\* restarted under the then-current config, which requests a fresh stream
\* from the back-end the config routes the name to, or parks the slot when
\* the config has a static entry for the name or no subscribing back-end for
\* it; the restart never happens before the restart_delay timer has fired.
C6_RestartAfterDelay ==
    /\ \A s \in SubscrSlots :
          AwaitingRestart(s) ~> (Resubscribed(s) \/ Parked(s) \/ Released(s))
    /\ [][C6_NotBeforeTimer]_vars

\* The only subscription there is has a fresh stream of the back-end of the
\* only config installed, whose restart_delay is not zero, after the one
\* item its first stream gave: that item was no value, since the slot has
\* none and the task holds none, so the stream ended or failed, the task
\* waited behind the timer and was restarted when the timer had fired
C6_Witness ==
    \E s \in ConsumerSlots :
        /\ pc = "idle" /\ engine = "running" /\ installs = 1 /\ cfgQueue = <<>>
        /\ IsSome(curCfg) /\ Cfg.restart_delay > 0
        /\ multi.st = "none" /\ ConsumerSlots = {s}
        /\ yields = 1 /\ slot[s].last = NoLast /\ slot[s].rx
        /\ futures = {g \in futures : g.kind = "Subscr" /\ g.tx = s}
        /\ \E g \in futures : g.item = NoItem /\ ~g.done /\ ~g.woken
        /\ Resubscribed(s) /\ ~Released(s)

(***************************************************************************)
(* Shutdown when the config stream ends                                    *)
(***************************************************************************)
\* One client, a single-name or a multi-name subscription, one config and
\* one item of a back-end or name-list stream
ShutdownScope ==
    /\ installs <= 1 /\ yields <= 1
    /\ \/ multi.st = "none"
       \/ \A s \in Slots : slot[s].used => (slot[s].watch \/ slot[s].name = <<>>)

NextShutdown ==
    \/ EnginePoll \/ EngineRequest \/ PollConfig \/ PollSubscr \/ PollNoOp
    \/ PollTimeout \/ PollMulti \/ EngineReturn
    \/ (Subscribe /\ ShutdownScope') \/ (SubscribeStream /\ ShutdownScope')
    \/ (ConfigArrive /\ ShutdownScope') \/ (BackendYield /\ ShutdownScope')
    \/ (InputYield /\ ShutdownScope')
    \/ ConsumerPoll \/ ConsumerDrop \/ DropRouter \/ ConfigEnd \/ TimerFire
    \/ ConvergenceFire

EngineStepAll == EngineStep \/ PollMulti

FairShutdown ==
    /\ Init /\ [][NextShutdown]_vars
    /\ WF_vars(EngineStepAll) /\ WF_vars(ConsumerPoll)

Consumer(s) == slot[s].used /\ ~slot[s].watch

\* C7: when the config stream ends the engine terminates, and every consumer
\* of a subscription (single-name or multi-name) that keeps its stream
\* eventually observes the end of the stream.
C7_ShutdownEndsConsumers ==
    /\ cfgEnded ~> (engine = "done")
    /\ \A s \in SubscrSlots :
          (cfgEnded /\ Consumer(s) /\ slot[s].rx) ~> (slot[s].ended \/ ~slot[s].rx)

\* The config stream ended with the Router alive, and the consumer of a
\* multi-name subscription, which had received a value, has seen the end
C7_Witness ==
    /\ cfgEnded /\ tableAlive /\ engine = "done"
    /\ multi.st = "gone"
    /\ slot[multi.tx].ended /\ slot[multi.tx].rx
    /\ IsSome(slot[multi.tx].got.val)

(***************************************************************************)
(* The Router handles are dropped                                          *)
(***************************************************************************)
\* C8: dropping every Router handle does not cancel outstanding work: while
\* the config stream is open, every subscription whose consumer keeps its
\* stream is served by the running engine, which holds its sender.
C8_RouterDropKeepsWork ==
    \A s \in ConsumerSlots :
        (~cfgEnded /\ slot[s].rx) => (engine = "running" /\ slot[s].senders = 1)

(***************************************************************************)
(* Requests wait for the first config                                      *)
(***************************************************************************)
\* Nothing is dispatched or answered while there is no config
C9_WaitsForConfig ==
    curCfg = NoneOpt =>
        /\ procLog = <<>> /\ futures = {}
        /\ \A q \in Queries :
              /\ query[q].cfg = NoneOpt /\ query[q].backend = "none"
              /\ engine = "running" => query[q].st \in {"free", "queued"}

\* Requests are processed in the order of their submission
C9_InOrder == \A i \in 1..Len(procLog) : procLog[i] = i

\* The request loop entered by the install of the first config works under
\* that config
C9_UnderFirstConfig ==
    pc = "repoll" =>
        /\ IsSome(curCfg) /\ Len(procLog) + Len(requests) = submitted
        /\ \A q \in Queries : IsSome(query[q].cfg) => query[q].cfg = curCfg

\* The install of the first config enters that loop with the inbox as it
\* was, and the loop is left only with every request submitted so far
\* processed
C9_DrainsInbox ==
    /\ (curCfg = NoneOpt /\ IsSome(curCfg')) => (pc' = "repoll" /\ requests' = requests)
    /\ (pc = "repoll" /\ pc' # "repoll") =>
          (requests = <<>> /\ Len(procLog) = submitted /\ curCfg' = curCfg)

\* C9: until the first config has arrived no request is answered or
\* dispatched; in the engine poll that installs the first config every
\* request queued so far is processed under that config, in submission order.
C9_FirstConfig ==
    /\ [](C9_WaitsForConfig /\ C9_InOrder /\ C9_UnderFirstConfig)
    /\ [][C9_DrainsInbox]_vars

\* Two queries submitted before the first config have been processed, in
\* order, by the request loop that its install entered
C9_Witness ==
    /\ pc = "repoll" /\ requests = <<>>
    /\ procLog = <<1, 2>>
    /\ \A q \in Queries : query[q].cfg = curCfg

(***************************************************************************)
(* What the multi-name task emits                                          *)
(***************************************************************************)
\* The addresses of one entry: the IP list paired with the entry's port for
\* a host entry, the stored Address for a service entry, nothing for an
\* entry without a value
EntryAddrs(e) ==
    IF e.v = NoneOpt THEN {}
    ELSE IF e.kind \in {"StaticHost", "Host"}
    THEN {<<a[1], e.port>> : a \in e.v[1]}
    ELSE e.v[1]

UnionOfEntries(items) == UNION {EntryAddrs(items[n]) : n \in DOMAIN items}

\* C10: every value the multi-name task writes to its consumer slot equals
\* the union of addr() over the entries of its entry map at the write.
C10_EmitsUnion ==
    [][\A s \in Slots :
          (slot[s].used /\ ~slot[s].watch /\ slot[s].name = <<>>
           /\ slot'[s].last # slot[s].last) =>
              /\ multi'.tx = s
              /\ slot'[s].last.src = "multi"
              /\ slot'[s].last.val = Some(UnionOfEntries(multi'.items))
              /\ slot'[s].value = slot'[s].last.val]_vars

\* The consumer slot holds the union of a host entry, paired with the port
\* of its name, and a service entry, both fed by back-ends
C10_Witness ==
    /\ multi.st = "active"
    /\ \E n1, n2 \in DOMAIN multi.items :
          /\ multi.items[n1].kind = "Host" /\ multi.items[n1].v # NoneOpt
          /\ multi.items[n2].kind = "Addr" /\ multi.items[n2].v # NoneOpt
    /\ slot[multi.tx].value = Some(UnionOfEntries(multi.items))
    /\ Cardinality(UnionOfEntries(multi.items)) = 2

(***************************************************************************)
(* The convergence gate of the multi-name task                             *)
(***************************************************************************)
\* The step runs MultiSubscr::restart and respawns the task: the dispatch of
\* the Task request, the restart of the notified task after an install, or
\* the Restart that a new name list asks for
MultiRestarted ==
    /\ multi'.st = "active"
    /\ \/ multi.st = "queued"
       \/ multi.st = "active" /\ multi'.current # multi.current
       \/ /\ multi.st = "active"
          /\ \E t \in futures : t.kind = "Multi" /\ t.woken /\ t.notified
          /\ \A t \in futures' : t.kind = "Multi" => ~t.notified

\* The step writes a value to the consumer slot of the multi-name task
MultiEmits == slot'[multi'.tx].last # slot[multi'.tx].last

AllComplete(items) == \A n \in DOMAIN items : is_complete(items[n])

\* C11: a restart of the multi-name task emits a union at once only if the
\* name list is non-empty and every entry, the entries created in this
\* restart included, has a value; otherwise it emits nothing and the
\* convergence timer is armed.
C11_RestartGate ==
    [][MultiRestarted =>
          IF Len(multi'.current) > 0 /\ AllComplete(multi'.items)
          THEN TRUE
          ELSE ~MultiEmits /\ multi'.timer = "armed"]_vars

\* C12: from the latest change of the name list until a convergence timer
\* has fired, the multi-name task emits at most one value, unless every
\* entry has a value: once the consumer has taken a value emitted in that
\* window, a different value is emitted in the window only with every entry
\* complete.
C12_OneEmissionInWindow ==
    [][(/\ multi.st = "active" /\ MultiEmits
        /\ multi'.current = multi.current
        /\ multi.emitted /\ ~multi'.elapsed
        /\ slot[multi.tx].value = NoneOpt
        /\ slot[multi.tx].got = slot[multi.tx].last
        /\ slot'[multi.tx].last.val # slot[multi.tx].last.val) =>
          AllComplete(multi'.items)]_vars

(***************************************************************************)
(* The multi-name task under a fair executor                               *)
(***************************************************************************)
\* One multi-name subscription whose consumer stays; the config stream
\* yields configs with a fallthrough back-end, with or without static
\* entries, and stays open
MultiScope ==
    /\ \A i \in 1..Len(cfgQueue) : cfgQueue[i] \in {CfgFall, CfgStatic}
    /\ multi.input.t = "val" => multi.input.v # <<INameHost>>

NextMultiFair ==
    \/ EnginePoll \/ EngineRequest \/ PollConfig \/ PollSubscr \/ PollNoOp
    \/ PollTimeout \/ PollMulti \/ EngineReturn
    \/ (SubscribeStream /\ MultiScope') \/ (ConfigArrive /\ MultiScope')
    \/ (InputYield /\ MultiScope')
    \/ ConsumerPoll \/ BackendYield \/ TimerFire \/ ConvergenceFire

\* The executor polls the notified engine task and a poll runs to its end;
\* the timers that were set fire; the consumer polls when notified
FairMulti ==
    /\ Init /\ [][NextMultiFair]_vars
    /\ WF_vars(EngineStepAll) /\ WF_vars(TimerFire)
    /\ WF_vars(ConvergenceFire) /\ WF_vars(ConsumerPoll)

\* The consumer slot holds the union of the entries that have a value
PartialUnionEmitted ==
    /\ slot[multi.tx].last.src = "multi"
    /\ slot[multi.tx].last.val = Some(UnionOfEntries(multi.items))

\* The poll that finds the convergence timer fired, and leaves the gate
\* open, writes the union of the complete entries to the consumer slot
C13_EmitsAtFire ==
    (/\ multi.st = "active" /\ multi.timer = "fired"
     /\ multi'.st = "active" /\ multi'.timer = "none") =>
        /\ MultiEmits \/ slot'[multi.tx].last = slot[multi.tx].last
        /\ slot'[multi.tx].value = Some(UnionOfEntries(multi'.items))
        /\ slot'[multi.tx].last.src = "multi"

\* C13: once the convergence timer has fired the multi-name task, while the
\* consumer keeps its slot and the engine runs, emits the union of the
\* entries that have a value, whether or not every name has resolved (unless
\* a new name list starts a new timer first).
C13_PartialUnionAfterDelay ==
    /\ (multi.st = "active" /\ multi.timer = "fired")
          ~> \/ multi.st # "active" \/ engine # "running"
             \/ multi.timer = "armed"
             \/ multi.timer = "none" /\ PartialUnionEmitted
    /\ [][C13_EmitsAtFire]_vars

\* The timer fired with one of two names unresolved, and the consumer slot
\* holds the union made of the other name's back-end value
C13_Witness ==
    /\ multi.st = "active" /\ multi.timer = "none" /\ multi.elapsed
    /\ \E n1, n2 \in DOMAIN multi.items :
          /\ multi.items[n1].kind \in {"Host", "Addr"} /\ multi.items[n1].v = NoneOpt
          /\ multi.items[n2].kind \in {"Host", "Addr"} /\ multi.items[n2].v # NoneOpt
    /\ slot[multi.tx].value = Some(UnionOfEntries(multi.items))
    /\ UnionOfEntries(multi.items) # {}

\* A watch slot holds a back-end value, other than the entry's last one, that
\* the multi-name task has not taken, while the convergence gate is open
UpdatePending ==
    /\ multi.st = "active" /\ multi.timer = "none"
    /\ slot[multi.tx].rx
    /\ \E n \in DOMAIN multi.items :
          /\ ~is_static(multi.items[n])
          /\ IsSome(slot[multi.items[n].rx].value)
          /\ slot[multi.items[n].rx].value # multi.items[n].v
          /\ slot[multi.items[n].rx].last.src \in Backends

\* C14: with the gate open, a new back-end value in a watch slot is eventually
\* taken by the multi-name task (whose poll then emits the union that contains
\* it), unless the task is released or restarted or the engine stops first.
C14_NoUpdateLost == UpdatePending ~> (~UpdatePending \/ engine # "running")

(* The empty name list *)
EmptyListRead ==
    /\ multi.st = "active" /\ multi.current = <<>> /\ multi.input.t = "none"

EmptyEmitted ==
    /\ multi.st = "active"
    /\ slot[multi.tx].last.src = "multi"
    /\ slot[multi.tx].last.val = Some({})

\* With an empty list the only emission is the empty Address, written by the
\* poll that finds the convergence timer fired
EmptyEmitsAtFire ==
    (multi'.st = "active" /\ multi'.current = <<>> /\ MultiEmits) =>
        /\ multi.timer = "fired" /\ multi'.timer = "none"
        /\ slot'[multi'.tx].value = Some({})

\* C15 (as amended): with an empty name list (and a non-zero
\* convergence_delay, as every config here has) the task emits nothing when
\* it restarts; it arms the convergence timer, and the empty Address is
\* emitted by the poll that finds the timer fired, which eventually happens
\* while the consumer keeps its slot and the engine runs.
C15_EmptyListWaitsForTimer ==
    /\ [][EmptyEmitsAtFire]_vars
    /\ [][(MultiRestarted /\ multi'.current = <<>>) => multi'.timer = "armed"]_vars
    /\ EmptyListRead ~> (EmptyEmitted \/ ~EmptyListRead \/ engine # "running")

\* The empty list was read, the timer fired, and the consumer slot holds the
\* empty Address
C15_Witness ==
    /\ EmptyListRead /\ multi.elapsed /\ multi.timer = "none"
    /\ slot[multi.tx].value = Some({})
    /\ slot[multi.tx].last.src = "multi"

\* C15 (as stated): once the empty list has been read the empty Address is in
\* the consumer slot and no convergence timer is pending.
C15_EmptyListImmediate ==
    (EmptyListRead /\ pc = "idle" /\ engine = "running" /\ slot[multi.tx].rx) =>
        (EmptyEmitted /\ multi.timer = "none")

(* A static entry installed for a watched name *)
\* The value an entry of the multi-name task holds for a name the current
\* config defines statically
StaticEntryValue(n) == Unwrap(Static(Cfg, n.host, n.name))

\* C16: after the engine poll that installs a config, with the gate open, a
\* name the multi-name task watches through a slot, and that the config now
\* defines statically, has the static value in its entry once the task has
\* taken everything that was written to the watch slot, and the consumer slot
\* holds the union made with it.
C16_StaticReplacesBackend ==
    (/\ pc = "idle" /\ engine = "running" /\ IsSome(curCfg)
     /\ multi.st = "active" /\ multi.timer = "none" /\ slot[multi.tx].rx
     /\ ~(\E t \in futures : t.woken)) =>
        \A n \in DOMAIN multi.items :
            (/\ ~is_static(multi.items[n])
             /\ IsSome(Static(Cfg, n.host, n.name))
             /\ multi.items[n].v # NoneOpt
             /\ slot[multi.items[n].rx].value = NoneOpt) =>
                /\ multi.items[n].v = Some(StaticEntryValue(n))
                /\ slot[multi.tx].last.val = Some(UnionOfEntries(multi.items))

(* Release of a subscription task *)
TaskOf(s) == {t \in futures : t.kind \in {"Subscr", "NoOp", "Timeout", "Multi"} /\ t.tx = s}

\* C17: once the consumer has dropped its slot the subscription's task leaves
\* the engine's task set, whatever its kind, while the engine runs.
C17_TaskStopsAfterDrop ==
    \A s \in SubscrSlots :
        (slot[s].used /\ ~slot[s].watch /\ ~slot[s].rx)
            ~> (engine # "running" \/ TaskOf(s) = {})

(* Parked subscriptions follow the config *)
\* The engine is at rest under a config and has taken every request
AtRest == pc = "idle" /\ engine = "running" /\ IsSome(curCfg) /\ requests = <<>>

\* C18: when the engine is at rest, a single-name subscription whose consumer
\* keeps its slot is parked in a no-op task only if the installed config
\* defines its name statically (the static value then being the last one
\* written to the slot) or routes it to no back-end; when the installed config
\* routes the name to a back-end the slot is served by a live task (or one
\* awaiting restart_delay); a parked slot has its sender and has not ended.
C18_ParkedFollowsConfig ==
    \A s \in ConsumerSlots :
        (AtRest /\ slot[s].rx) =>
            /\ TaskOf(s) # {}
            /\ (\E g \in TaskOf(s) : g.kind = "NoOp") =>
                  /\ Parked(s)
                  /\ slot[s].senders = 1 /\ ~slot[s].ended
            /\ ServedBy(Cfg, slot[s].host, slot[s].name) \in Backends =>
                  \A g \in TaskOf(s) : g.kind \in {"Subscr", "Timeout"}

\* A consumer took the static value while its subscription was parked, and
\* after a later install, which routes the name to a back-end, its slot
\* holds a value of that back-end
C18_Witness ==
    \E s \in ConsumerSlots :
        /\ AtRest /\ slot[s].rx
        /\ slot[s].got.src = "static"
        /\ slot[s].last.src \in Backends
        /\ slot[s].last.src = ServedBy(Cfg, slot[s].host, slot[s].name)
        /\ IsSome(slot[s].value)

(***************************************************************************)
(* A suffix without back-ends                                              *)
(***************************************************************************)
\* One kind of client at a time
BareScope ==
    LET q == \E x \in Queries : query[x].st # "free"
        c == ConsumerSlots # {}
        m == multi.st # "none"
    IN ~(q /\ c) /\ ~(q /\ m) /\ ~(c /\ m)

NextBare ==
    \/ EnginePoll \/ EngineRequest \/ PollConfig \/ PollSendResult
    \/ PollSubscr \/ PollNoOp \/ PollMulti \/ PollTimeout \/ EngineReturn
    \/ (SubmitQuery /\ BareScope') \/ (Subscribe /\ BareScope')
    \/ (SubscribeStream /\ BareScope') \/ ConsumerPoll \/ ConfigArriveBare
    \/ BackendAnswer \/ BackendYield \/ TimerFire \/ ConvergenceFire

SpecBare == Init /\ [][NextBare]_vars

\* One-shot queries for x.c dispatched under the bare suffix fail with
\* NameNotFound and reach no back-end
BareQueriesFail ==
    \A q \in Queries :
        (query[q].name = NameXC /\ query[q].cfg = Some(CfgBare)) =>
            /\ query[q].st = "done"
            /\ query[q].reply = [t |-> "NameNotFound", v |-> {}]
            /\ query[q].backend = Null
            /\ \A f \in futures : ~(f.kind = "SendResult" /\ f.tx = q)

\* No value is written under the bare suffix to a slot of x.c, be it a
\* consumer's or a watch slot, and at rest no live task serves such a slot
BareSlotsSilent ==
    \A s \in Slots :
        (slot[s].used /\ slot[s].name = NameXC) =>
            /\ slot[s].last.cfg # Some(CfgBare)
            /\ (AtRest /\ curCfg = Some(CfgBare)) =>
                  \A g \in TaskOf(s) : g.kind \in {"NoOp", "Timeout"}

\* The multi-name task creates no entry for x.c under the bare suffix
BareEntryNotCreated ==
    (/\ multi'.st = "active" /\ curCfg' = Some(CfgBare)
     /\ INameSvc \in DOMAIN multi'.items) =>
        multi.st = "active" /\ INameSvc \in DOMAIN multi.items

\* C19 (as amended): under a config whose suffix "c" has no back-end, a
\* one-shot query for x.c fails with NameNotFound without reaching the
\* fallthrough back-end, no value is written to a slot of x.c and no live
\* task serves it, and the multi-name task creates no entry for x.c (an entry
\* it created under an earlier config is kept, with its last value).
C19_BareSuffixStopsFallthrough ==
    /\ [](BareQueriesFail /\ BareSlotsSilent)
    /\ [][BareEntryNotCreated]_vars

\* Under the bare suffix the multi-name task watches "h" alone out of the
\* list [h, x.c], and the consumer slot holds the fallthrough back-end's
\* value for "h"
C19_Witness ==
    /\ AtRest /\ curCfg = Some(CfgBare) /\ installs = 1
    /\ multi.st = "active" /\ multi.current = <<INameHost, INameSvc>>
    /\ DOMAIN multi.items = {INameHost}
    /\ multi.items[INameHost].v # NoneOpt
    /\ slot[multi.tx].value = Some(UnionOfEntries(multi.items))
    /\ UnionOfEntries(multi.items) # {}

\* C19 (as stated): a union the multi-name task emits under the bare suffix
\* holds no address of x.c.
C19_MultiOmits ==
    (multi.st = "active" /\ slot[multi.tx].last.cfg = Some(CfgBare)) =>
        \A n \in DOMAIN multi.items :
            n.name = NameXC => EntryAddrs(multi.items[n]) = {}

(***************************************************************************)
(* The slot on its own (src/src/slot.rs)                                   *)
(***************************************************************************)
MaxOps == 5
MaxSenders == 2
TestSlot == 1

\* A call on the slot with what it returned
SlotEvent(op, v, ok) == [op |-> op, v |-> v, ok |-> ok, panic |-> FALSE]

\* A swap that panicked on expect("sending to a closed slot")
SwapPanic(v) == [op |-> "swap", v |-> v, ok |-> FALSE, panic |-> TRUE]

\* The Sender handles that were closed through Sink::close and are still
\* held: their inner is None
ClosedHandles(trace) == {j \in 1..Len(trace) : trace[j].op = "sink_close"}

SlotFrame == UNCHANGED <<engine, pc, engWoken, tableAlive, curCfg, cfgQueue,
                         cfgEnded, installs, requests, submitted, procLog,
                         yields, suffixIn, suffixOut, aux>>

\* slot::channel(): one Sender, one Receiver, an empty cell
SlotChannel ==
    /\ ~slot[TestSlot].used /\ slotTrace = <<>>
    /\ slot' = [slot EXCEPT ![TestSlot] = ConsumerSlot(FALSE, <<>>)]
    /\ UNCHANGED <<futures, query, multi, slotTrace>>
    /\ SlotFrame

\* Sender::swap on a handle that holds its Weak: Ok when the Weak upgrades,
\* Err(SendError) otherwise
SlotSwap ==
    /\ slot[TestSlot].used /\ slot[TestSlot].senders > 0
    /\ Len(slotTrace) < MaxOps
    /\ \E v \in Addresses :
          /\ IF swap_ok(World, TestSlot)
             THEN Apply(swap(World, TestSlot, v, "sender", Config_new))
             ELSE UNCHANGED <<futures, slot, query, multi>>
          /\ slotTrace' = Append(slotTrace,
                                 SlotEvent("swap", Some(v), swap_ok(World, TestSlot)))
    /\ SlotFrame

\* Receiver::poll: Ready(Some(value)), Ready(None) at the end, or NotReady
SlotPoll ==
    /\ slot[TestSlot].used /\ slot[TestSlot].rx /\ ~slot[TestSlot].ended
    /\ Len(slotTrace) < MaxOps
    /\ \E after \in {Receiver_poll(slot[TestSlot])} :
          /\ slot' = [slot EXCEPT ![TestSlot] = after]
          /\ slotTrace' = Append(slotTrace,
                SlotEvent("poll",
                          IF after.value = NoneOpt THEN slot[TestSlot].value
                          ELSE NoneOpt,
                          ~after.ended))
    /\ UNCHANGED <<futures, query, multi>>
    /\ SlotFrame

\* Clone for Sender: one more Weak of the cell
SlotClone ==
    /\ slot[TestSlot].used
    /\ slot[TestSlot].senders > 0 /\ slot[TestSlot].senders < MaxSenders
    /\ Len(slotTrace) < MaxOps
    /\ slot' = [slot EXCEPT ![TestSlot].senders = @ + 1]
    /\ slotTrace' = Append(slotTrace, SlotEvent("clone", NoneOpt, TRUE))
    /\ UNCHANGED <<futures, query, multi>>
    /\ SlotFrame

\* Drop of a Sender: Sender::close
SlotClose ==
    /\ slot[TestSlot].used /\ slot[TestSlot].senders > 0
    /\ Len(slotTrace) < MaxOps
    /\ Apply(close(World, TestSlot))
    /\ slotTrace' = Append(slotTrace, SlotEvent("close", NoneOpt, TRUE))
    /\ SlotFrame

\* Sink::close on a Sender that is kept: the Weak is taken out of the
\* handle and the receiver is notified, as in a drop
SlotSinkClose ==
    /\ slot[TestSlot].used /\ slot[TestSlot].senders > 0
    /\ Len(slotTrace) < MaxOps
    /\ Apply(close(World, TestSlot))
    /\ slotTrace' = Append(slotTrace, SlotEvent("sink_close", NoneOpt, TRUE))
    /\ SlotFrame

\* Sender::swap on a handle closed through Sink::close: self.inner is None
\* and the expect panics before the cell is touched
SlotSwapClosed ==
    /\ slot[TestSlot].used /\ ClosedHandles(slotTrace) # {}
    /\ Len(slotTrace) < MaxOps
    /\ \E v \in Addresses : slotTrace' = Append(slotTrace, SwapPanic(Some(v)))
    /\ UNCHANGED <<futures, slot, query, multi>>
    /\ SlotFrame

\* Drop of the Receiver
SlotDropRx ==
    /\ slot[TestSlot].used /\ slot[TestSlot].rx
    /\ Len(slotTrace) < MaxOps
    /\ Apply(DropRx(World, TestSlot))
    /\ slotTrace' = Append(slotTrace, SlotEvent("drop", NoneOpt, TRUE))
    /\ SlotFrame

NextSlot ==
    \/ SlotChannel \/ SlotSwap \/ SlotPoll \/ SlotClone \/ SlotClose
    \/ SlotSinkClose \/ SlotSwapClosed \/ SlotDropRx

SpecSlot == Init /\ [][NextSlot]_vars

Max(S) == CHOOSE x \in S : \A y \in S : y <= x

\* The swaps made since the poll before the i-th operation
SwapsBefore(i) ==
    LET polls == {j \in 1..(i - 1) : slotTrace[j].op = "poll"}
        from == IF polls = {} THEN 1 ELSE Max(polls) + 1
    IN {k \in from..(i - 1) : slotTrace[k].op = "swap" /\ slotTrace[k].ok}

Before(i, op) == \E j \in 1..(i - 1) : slotTrace[j].op = op

\* The senders alive before the i-th operation
SendersBefore(i) ==
    1 + Cardinality({j \in 1..(i - 1) : slotTrace[j].op = "clone"})
      - Cardinality({j \in 1..(i - 1) : slotTrace[j].op \in {"close", "sink_close"}})

\* C20 (amended): a poll that follows one or more swaps that succeeded
\* returns the value of the last of them, and a poll that follows none since
\* the poll before it returns NotReady, or the end once the sender is gone;
\* a swap on a handle that holds its Weak succeeds exactly when the receiver
\* has not been dropped, and a swap on a handle closed through Sink::close
\* panics and leaves the cell alone, whether the receiver exists or not; the
\* cell holds the last value swapped since the last poll, or nothing.
C20_SlotKeepsLastValue ==
    /\ \A i \in 1..Len(slotTrace) :
          /\ slotTrace[i].op = "poll" =>
                IF SwapsBefore(i) # {}
                THEN /\ slotTrace[i].v = slotTrace[Max(SwapsBefore(i))].v
                     /\ slotTrace[i].ok
                ELSE /\ slotTrace[i].v = NoneOpt
                     /\ slotTrace[i].ok = (SendersBefore(i) > 0)
          /\ slotTrace[i].op = "swap" =>
                IF slotTrace[i].panic
                THEN Before(i, "sink_close") /\ ~slotTrace[i].ok
                ELSE slotTrace[i].ok = ~Before(i, "drop")
    /\ slot[TestSlot].used /\ slot[TestSlot].rx =>
          slot[TestSlot].value =
              IF SwapsBefore(Len(slotTrace) + 1) = {} THEN NoneOpt
              ELSE slotTrace[Max(SwapsBefore(Len(slotTrace) + 1))].v

\* Two swaps of different values, then a poll that returns the second value
\* and a poll that returns NotReady
C20_Witness ==
    /\ Len(slotTrace) = 4
    /\ slotTrace[1].op = "swap" /\ slotTrace[2].op = "swap"
    /\ slotTrace[1].v # slotTrace[2].v
    /\ slotTrace[1].ok /\ slotTrace[2].ok
    /\ slotTrace[3] = SlotEvent("poll", slotTrace[2].v, TRUE)
    /\ slotTrace[4] = SlotEvent("poll", NoneOpt, TRUE)

\* C20 (as stated): a swap succeeds whenever the receiver still exists.
C20_SwapSucceedsWhileReceiver ==
    \A i \in 1..Len(slotTrace) :
        (slotTrace[i].op = "swap" /\ ~Before(i, "drop")) => slotTrace[i].ok

\* C21: a poll returns the end only when no sender is left and no value has
\* been swapped since the poll before it: a value swapped before the last
\* sender was dropped is returned first; while a sender is alive a poll of
\* the empty cell returns NotReady.
C21_EndOnlyWhenEmptyAndClosed ==
    /\ \A i \in 1..Len(slotTrace) :
          slotTrace[i].op = "poll" =>
              /\ ~slotTrace[i].ok =>
                    SendersBefore(i) = 0 /\ SwapsBefore(i) = {}
              /\ SwapsBefore(i) # {} =>
                    slotTrace[i].ok /\ IsSome(slotTrace[i].v)
              /\ (SwapsBefore(i) = {} /\ SendersBefore(i) > 0) =>
                    slotTrace[i] = SlotEvent("poll", NoneOpt, TRUE)
    /\ slot[TestSlot].ended =>
          slot[TestSlot].senders = 0 /\ slot[TestSlot].value = NoneOpt

\* A value is swapped, the only sender is dropped, the next poll returns the
\* value and the poll after it the end
C21_Witness ==
    /\ Len(slotTrace) = 4
    /\ slotTrace[1].op = "swap" /\ slotTrace[2].op = "close"
    /\ slotTrace[3] = SlotEvent("poll", slotTrace[1].v, TRUE)
    /\ slotTrace[4] = SlotEvent("poll", NoneOpt, FALSE)
    /\ slot[TestSlot].ended

(***************************************************************************)
(* The slot between two threads (src/src/slot.rs)                          *)
(*                                                                         *)
(* The sections under the Mutex are atomic; the counts of the Arc are      *)
(* changed outside of it.  The receiver is kept alive.                     *)
(***************************************************************************)
MaxSwaps == 2

ChanFrame == UNCHANGED <<engine, pc, engWoken, tableAlive, curCfg, cfgQueue,
                         cfgEnded, installs, requests, futures, slot, query,
                         multi, submitted, procLog, yields, suffixIn,
                         suffixOut, slotTrace, fuse, auto, ival>>

\* Sender::swap, strong.upgrade(): a temporary Arc
SwapUpgrade ==
    /\ chan.spc = "idle" /\ chan.sent < MaxSwaps
    /\ chan' = [chan EXCEPT !.strong = @ + 1, !.spc = "swap_lock"]
    /\ ChanFrame

\* Sender::swap under the lock: the value is replaced, the task is taken
SwapStore ==
    /\ chan.spc = "swap_lock"
    /\ \E v \in Addresses :
          chan' = [chan EXCEPT !.value = Some(v), !.stask = chan.task,
                               !.task = FALSE, !.sent = @ + 1,
                               !.spc = "swap_release"]
    /\ ChanFrame

\* Sender::swap: the temporary Arc is dropped after the MutexGuard
SwapRelease ==
    /\ chan.spc = "swap_release"
    /\ chan' = [chan EXCEPT !.strong = @ - 1, !.spc = "swap_notify"]
    /\ ChanFrame

\* Sender::swap: task.notify() when a task was taken
SwapNotify ==
    /\ chan.spc = "swap_notify"
    /\ chan' = [chan EXCEPT !.notified = @ \/ chan.stask, !.stask = FALSE,
                            !.spc = "idle"]
    /\ ChanFrame

\* Sender::close, weak.upgrade(): a temporary Arc
CloseUpgrade ==
    /\ chan.spc = "idle"
    /\ chan' = [chan EXCEPT !.strong = @ + 1, !.spc = "close_weak"]
    /\ ChanFrame

\* Sender::close, drop(weak)
CloseDropWeak ==
    /\ chan.spc = "close_weak"
    /\ chan' = [chan EXCEPT !.weak = @ - 1, !.spc = "close_lock"]
    /\ ChanFrame

\* Sender::close under the lock: the task is taken
CloseTake ==
    /\ chan.spc = "close_lock"
    /\ chan' = [chan EXCEPT !.stask = chan.task, !.task = FALSE,
                            !.spc = "close_release"]
    /\ ChanFrame

\* Sender::close: the temporary Arc is dropped after the MutexGuard
CloseRelease ==
    /\ chan.spc = "close_release"
    /\ chan' = [chan EXCEPT !.strong = @ - 1, !.spc = "close_notify"]
    /\ ChanFrame

\* Sender::close: task.notify() when a task was taken
CloseNotify ==
    /\ chan.spc = "close_notify"
    /\ chan' = [chan EXCEPT !.notified = @ \/ chan.stask, !.stask = FALSE,
                            !.spc = "gone"]
    /\ ChanFrame

\* Receiver::poll under the lock: the task is recorded when the cell is
\* empty, the value is taken
PollLocked ==
    /\ chan.rpc = "ready"
    /\ chan' = [chan EXCEPT !.task = IF chan.value = NoneOpt THEN TRUE ELSE @,
                            !.result = chan.value, !.value = NoneOpt,
                            !.rpc = "get_mut"]
    /\ ChanFrame

\* Arc::get_mut: Some when no other Arc and no Weak is left
is_only_reference(c) == c.strong = 1 /\ c.weak = 0

\* Receiver::poll after the lock: Ready(Some(value)), Ready(None) or NotReady
PollResult ==
    /\ chan.rpc = "get_mut"
    /\ chan' = IF IsSome(chan.result)
               THEN [chan EXCEPT !.got = chan.result, !.result = NoneOpt,
                                 !.rpc = "ready"]
               ELSE IF is_only_reference(chan)
               THEN [chan EXCEPT !.task = FALSE, !.rpc = "ended"]
               ELSE [chan EXCEPT !.rpc = "parked"]
    /\ ChanFrame

\* The executor polls the receiver's task again after a notification
ReceiverWake ==
    /\ chan.rpc = "parked" /\ chan.notified
    /\ chan' = [chan EXCEPT !.notified = FALSE, !.rpc = "ready"]
    /\ ChanFrame

SenderStep ==
    \/ SwapUpgrade \/ SwapStore \/ SwapRelease \/ SwapNotify
    \/ CloseUpgrade \/ CloseDropWeak \/ CloseTake \/ CloseRelease
    \/ CloseNotify

ReceiverStep == PollLocked \/ PollResult \/ ReceiverWake

NextChan == SenderStep \/ ReceiverStep

\* Each thread goes on running
FairChan ==
    Init /\ [][NextChan]_vars /\ WF_vars(SenderStep) /\ WF_vars(ReceiverStep)

\* C22 (as stated): under every interleaving of the two threads, once the
\* last sender is gone the receiver obtains the end of the stream: it does
\* not stay parked forever.
C22_NoLostWakeup == (chan.spc = "gone") ~> (chan.rpc = "ended")

(***************************************************************************)
(* The Fuse adapter on its own (src/src/fuse.rs)                           *)
(***************************************************************************)
MaxFusePolls == 4

\* What a poll of the wrapped stream may return; a stream may return
\* anything after its end or its error
StreamEvents == {"item1", "item2", "NotReady", "end", "err"}

\* A Fuse that is fused by the end of the stream only
Fuse_poll_end_only(f, ev) ==
    IF f.done THEN [done |-> TRUE, res |-> "end", polled |-> FALSE]
    ELSE [done |-> ev = "end", res |-> ev, polled |-> TRUE]

\* Fuse::poll, where ev is what the wrapped stream returns if it is polled
Fuse_poll(f, ev) ==
    IF f.done THEN [done |-> TRUE, res |-> "end", polled |-> FALSE]
    ELSE IF ev \in {"end", "err"}
    THEN [done |-> TRUE, res |-> ev, polled |-> TRUE]
    ELSE [done |-> FALSE, res |-> ev, polled |-> TRUE]

\* Fuse::is_done
is_done(f) == f.done

\* A poll of the adapter, then a call of is_done()
FusePoll ==
    /\ Len(fuse.log) < MaxFusePolls
    /\ \E ev \in StreamEvents :
        \E r \in {Fuse_poll(fuse, ev)} :
          \E after \in {[fuse EXCEPT !.done = r.done]} :
            fuse' = [after EXCEPT !.log = Append(@,
                        [inner |-> IF r.polled THEN ev ELSE "unpolled",
                         res |-> r.res, done |-> is_done(after)])]
    /\ UNCHANGED <<engine, pc, engWoken, tableAlive, curCfg, cfgQueue,
                   cfgEnded, installs, requests, futures, slot, query, multi,
                   submitted, procLog, yields, suffixIn, suffixOut, slotTrace,
                   chan, auto, ival>>

SpecFuse == Init /\ [][FusePoll]_vars

\* The wrapped stream has yielded its end or an error in one of the first
\* n polls
Finished(n) == \E j \in 1..n : fuse.log[j].inner \in {"end", "err"}

\* C23: once the wrapped stream has yielded end or an error, is_done() is
\* true and every later poll returns end without a poll of the wrapped
\* stream; before that is_done() is false and what the wrapped stream
\* returns, the first error included, is handed to the caller unchanged.
C23_FusedAfterEndOrError ==
    /\ is_done(fuse) = Finished(Len(fuse.log))
    /\ \A i \in 1..Len(fuse.log) :
          /\ fuse.log[i].done = Finished(i)
          /\ IF Finished(i - 1)
             THEN fuse.log[i].res = "end" /\ fuse.log[i].inner = "unpolled"
             ELSE fuse.log[i].res = fuse.log[i].inner
                  /\ fuse.log[i].inner \in StreamEvents

\* An item, then the error handed once, then the end without a poll of the
\* wrapped stream
C23_Witness ==
    /\ Len(fuse.log) >= 3
    /\ fuse.log[1].res = "item1" /\ ~fuse.log[1].done
    /\ fuse.log[2].res = "err" /\ fuse.log[2].done
    /\ fuse.log[3] = [inner |-> "unpolled", res |-> "end", done |-> TRUE]

(***************************************************************************)
(* Replies of the back-ends to one-shot queries                            *)
(***************************************************************************)
\* The SendResult tasks that forward to the reply channel of query q
SendResults(fs, q) == {t \in fs : t.kind = "SendResult" /\ t.tx = q}

\* What SendResult hands to the reply channel for the outcome of the
\* back-end's future
Forwarded(t) ==
    IF t.item.t = "ok"
    THEN [t |-> "ok", v |-> IF t.port = NoPort THEN t.item.v
                            ELSE with_port(t.item.v, t.port)]
    ELSE [t |-> t.item.t, v |-> {}]

\* A query dispatched to a back-end waits with one SendResult task; a query
\* routed to the NullResolver is answered NameNotFound with no task; only a
\* terminated engine leaves a dispatched query without a reply
DispatchedState ==
    \A q \in Queries :
        /\ query[q].backend \in Backends =>
              /\ query[q].st \in {"pending", "done"}
              /\ query[q].st = "pending" =>
                    engine = "running" /\ Cardinality(SendResults(futures, q)) = 1
              /\ query[q].st = "done" =>
                    /\ SendResults(futures, q) = {}
                    /\ query[q].reply.t \in {"ok", "NameNotFound", "TemporaryError",
                                             "Canceled"}
                    /\ query[q].reply.t = "Canceled" => engine # "running"
        /\ query[q].backend = Null =>
              /\ query[q].st = "done"
              /\ query[q].reply = [t |-> "NameNotFound", v |-> {}]
              /\ SendResults(futures, q) = {}

\* The reply to a dispatched query is the outcome of the back-end's future,
\* the task is gone after it, and a reply is never replaced
ForwardsOnce ==
    \A q \in Queries :
        /\ (query[q].st = "pending" /\ query'[q].st = "done" /\ engine' = "running") =>
              \E t \in SendResults(futures, q) :
                  /\ t.item.t # "none"
                  /\ query'[q].reply = Forwarded(t)
                  /\ SendResults(futures', q) = {}
        /\ query[q].st = "done" => query'[q] = query[q]

\* C24 (amended): a one-shot query dispatched to a back-end receives at most
\* one reply, which is the back-end's value or the back-end's error of
\* whatever kind, forwarded unchanged by a task that then finishes; a name
\* routed to the NullResolver is answered NameNotFound at once; a dispatched
\* query is left without a reply only when the engine terminates before the
\* back-end's outcome was forwarded, and its reply channel is then dropped.
C24_ForwardsBackendOutcome == []DispatchedState /\ [][ForwardsOnce]_vars

\* One query answered with a back-end's TemporaryError, one answered
\* NameNotFound by the NullResolver
C24_Witness ==
    \E q1, q2 \in Queries :
        /\ query[q1].backend \in Backends /\ query[q1].st = "done"
        /\ query[q1].reply = [t |-> "TemporaryError", v |-> {}]
        /\ query[q2].backend = Null /\ query[q2].st = "done"

\* C24 (as stated): every query dispatched to a back-end that is finished
\* has received the back-end's value or the back-end's error.
C24_EveryDispatchedReplied ==
    \A q \in Queries :
        (query[q].backend \in Backends /\ query[q].st = "done") =>
            query[q].reply.t \in {"ok", "NameNotFound", "TemporaryError"}

(***************************************************************************)
(* Calls on a Router whose engine has terminated                           *)
(***************************************************************************)
\* One kind of client at a time while the engine runs, every kind after it,
\* a config stream that yields one config at most and may end, back-ends
\* that stay silent
DownScope == installs <= 1 /\ (engine = "running" => BareScope)

NextDown ==
    \/ EnginePoll \/ EngineRequest \/ PollConfig \/ PollSendResult
    \/ PollSubscr \/ PollNoOp \/ PollMulti \/ EngineReturn
    \/ (SubmitQuery /\ DownScope') \/ (Subscribe /\ DownScope')
    \/ (SubscribeStream /\ DownScope') \/ ConsumerPoll
    \/ (ConfigArrive /\ DownScope') \/ ConfigEnd

SpecDown == Init /\ [][NextDown]_vars

ResolverIsDown == [t |-> "ResolverIsDown", v |-> {}]

\* What a call made after the engine has terminated leaves behind, given
\* the replies a query may be completed with: nothing is put in the inbox,
\* a query is completed in the call, a subscription gets an empty stream
\* with no sender left, whose poll returns the end
DownCallWith(replies(_)) ==
    engine # "running" =>
        /\ requests' = requests
        /\ \A q \in Queries :
              (query[q].st = "free" /\ query'[q].st # "free") =>
                  /\ query'[q].st = "done"
                  /\ query'[q].reply \in replies(query'[q])
                  /\ query'[q].backend = "none"
        /\ \A s \in Slots :
              (~slot[s].used /\ slot'[s].used) =>
                  /\ slot'[s].value = NoneOpt /\ slot'[s].last = NoLast
                  /\ slot'[s].senders = 0 /\ slot'[s].rxWoken

\* The failure of the call alone
DownReplies(r) == {ResolverIsDown}

\* The failure of the call, or the static entry that the config left in the
\* cell of the Table has for the name
DownOrStaticReplies(r) ==
    {ResolverIsDown}
        \cup {[t |-> "ok", v |-> Unwrap(Table_shortcut(curCfg, r.kind, r.name, r.port))] :
                 x \in {y \in {1} : IsSome(Table_shortcut(curCfg, r.kind, r.name, r.port))}}

DownCall == DownCallWith(DownOrStaticReplies)

\* A stream handed out by a terminated engine never holds a value, and its
\* poll returns the end
DownStreams ==
    \A s \in Slots :
        (slot[s].used /\ ~slot[s].watch /\ slot[s].last = NoLast
            /\ engine # "running") =>
            /\ slot[s].value = NoneOpt /\ slot[s].senders = 0
            /\ slot[s].got = NoLast

\* C25 (amended): after the engine has terminated, resolve_host, resolve and
\* resolve_auto on a host or service name are completed in the call and put
\* nothing in the inbox: they fail with TemporaryError("Resolver is down"),
\* except that a call through the Table on a name with a static entry in the
\* last installed config is answered with that entry; subscribe,
\* subscribe_host and subscribe_many return a stream that ends without a
\* value or an error.
C25_DownFailsLocally == []DownStreams /\ [][DownCall]_vars

\* After the termination a query was failed, a later one was answered from
\* the static entries of the last config, and the streams of a subscription
\* and of a multi-name subscription have returned their end
C25_Witness ==
    /\ engine # "running"
    /\ \E q1, q2 \in Queries :
          /\ q1 < q2
          /\ query[q1].reply = ResolverIsDown
          /\ query[q2].st = "done" /\ query[q2].reply.t = "ok"
    /\ \E s \in Slots :
          /\ slot[s].used /\ slot[s].name # <<>> /\ slot[s].ended
          /\ slot[s].last = NoLast
    /\ multi.st = "gone" /\ slot[multi.tx].ended

\* C25 (as stated): every resolve_host, resolve and resolve_auto on a host
\* or service name made after the engine has terminated fails with
\* TemporaryError("Resolver is down").
C25_EveryDownCallFails == [][DownCallWith(DownReplies)]_vars

(***************************************************************************)
(* The config a one-shot query is answered under                           *)
(***************************************************************************)
\* The config that was current when the engine dequeued query q
DequeueCfg(q) == Unwrap(query[q].cfg)

\* The static entry of that config for the query, if any
DequeueStatic(q) ==
    Static(DequeueCfg(q), query[q].kind # "Resolve", query[q].name)

\* The back-end the suffix lookup of that config gives for the query
DequeueBackend(q) ==
    IF query[q].kind = "Resolve"
    THEN get_suffix(DequeueCfg(q), query[q].name).resolver
    ELSE get_suffix(DequeueCfg(q), query[q].name).host_resolver

\* A dequeued query is answered from the static entry of its config, or it
\* is in the hands of the back-end its config gives
UnderDequeueCfg ==
    \A q \in Queries :
        IsSome(query[q].cfg) =>
            IF IsSome(DequeueStatic(q))
            THEN /\ query[q].st = "done" /\ query[q].backend = "none"
                 /\ query[q].reply =
                       [t |-> "ok",
                        v |-> IF query[q].kind = "ResolveHostPort"
                              THEN with_port(Unwrap(DequeueStatic(q)), query[q].port)
                              ELSE Unwrap(DequeueStatic(q))]
            ELSE /\ query[q].backend = DequeueBackend(q)
                 /\ \A t \in SendResults(futures, q) :
                       t.subscriber = query[q].backend

\* The config and the back-end of a dequeued query stay; an install leaves
\* the queries and their forwarding tasks alone; the reply is the outcome of
\* the future of the back-end chosen at the dequeue
DequeueCfgStays ==
    \A q \in Queries :
        /\ IsSome(query[q].cfg) =>
              /\ query'[q].cfg = query[q].cfg
              /\ query'[q].backend = query[q].backend
        /\ curCfg' # curCfg =>
              /\ query'[q] = query[q]
              /\ SendResults(futures', q) = SendResults(futures, q)
        /\ (query[q].st = "pending" /\ query'[q].st = "done" /\ engine' = "running") =>
              \E t \in SendResults(futures, q) :
                  /\ t.subscriber = DequeueBackend(q)
                  /\ query'[q].reply = Forwarded(t)

\* C26: the reply to a one-shot query is determined by the config that was
\* current when the engine dequeued the request (its static entry, or the
\* back-end its suffix lookup gives); a config installed after the dequeue,
\* even while the back-end's answer is pending, changes neither the back-end
\* that answers nor the reply.
C26_ReplyUnderDequeueCfg == []UnderDequeueCfg /\ [][DequeueCfgStays]_vars

\* A query for x.c is in the hands of the fallthrough back-end, whose answer
\* waits to be forwarded, and a config with a static entry for x.c has been
\* installed since the dequeue
C26_Witness ==
    \E q \in Queries :
        /\ query[q].name = NameXC /\ query[q].kind = "Resolve"
        /\ query[q].cfg = Some(CfgFall) /\ query[q].backend = "B1"
        /\ curCfg = Some(CfgStatic2)
        /\ query[q].st = "pending"
        /\ \E t \in SendResults(futures, q) :
              t.item.t = "ok" /\ t.item.v # StaticAddr2

(***************************************************************************)
(* The end of the stream of name lists                                     *)
(***************************************************************************)
\* The stream of name lists has ended or failed and the task has not seen it
InputOver == multi.st = "active" /\ multi.input.t \in {"end", "err"}

\* The task is gone with its Sender, the receivers of its watch slots are
\* dropped
MultiStopped ==
    /\ multi.st = "gone"
    /\ slot[multi.tx].senders = 0
    /\ \A s \in Slots : (slot[s].used /\ slot[s].watch) => ~slot[s].rx

\* C28 (as stated): when the stream of name lists ends or yields an error
\* the multi-name task stops, every watch slot of its names is released, and
\* the consumer's stream ends.
C28_InputOverStops == InputOver ~> (MultiStopped /\ slot[multi.tx].ended)

(***************************************************************************)
(* AutoName::parse (src/src/name.rs)                                       *)
(***************************************************************************)
MaxPieces == 4

\* The strings given to the parser are made of these pieces
Pieces ==
    {<<"1", ".", "1", ".", "1", ".", "1">>, <<":", ":", "1">>,
     <<"[", ":", ":", "1", "]">>,
     <<"1">>, <<"h">>, <<".">>, <<":">>, <<"_">>, <<"[">>, <<"]">>}

RECURSIVE Concats(_)
Concats(n) ==
    IF n = 0 THEN {<<>>}
    ELSE {x \o y : x \in Concats(n - 1), y \in Pieces \cup {<<>>}}

AutoStrings == Concats(MaxPieces)

\* The value of a digit in the radix, -1 for any other character
to_digit(c, radix) ==
    CASE c = "1" -> 1
      [] c = "h" -> -1
      [] OTHER -> -1

NoRead == [ok |-> FALSE, pos |-> 0, v |-> <<>>]
Read(pos, v) == [ok |-> TRUE, pos |-> pos, v |-> v]
At(s, i, c) == i >= 1 /\ i <= Len(s) /\ s[i] = c

\* The digits s[i], s[i+1], ... of a number: how many, and their value
RECURSIVE ReadDigits(_, _, _, _, _)
ReadDigits(s, i, radix, n, v) ==
    IF i <= Len(s) /\ to_digit(s[i], radix) >= 0
    THEN ReadDigits(s, i + 1, radix, n + 1, v * radix + to_digit(s[i], radix))
    ELSE [n |-> n, v |-> v]

\* Parser::read_number: at least one digit, at most max_digits of them when
\* max_digits > 0, a value below upto
read_number(s, i, radix, max_digits, upto) ==
    Only({IF d.n = 0 \/ (max_digits > 0 /\ d.n > max_digits) \/ d.v >= upto
          THEN NoRead ELSE Read(i + d.n, d.v) :
          d \in {ReadDigits(s, i, radix, 0, 0)}})

\* Parser::read_ipv4_addr: four numbers below 256 separated by dots
RECURSIVE ReadOctets(_, _, _, _)
ReadOctets(s, i, k, acc) ==
    Only({IF ~n.ok THEN NoRead
          ELSE IF k = 3 THEN Read(n.pos, Append(acc, n.v))
          ELSE ReadOctets(s, n.pos, k + 1, Append(acc, n.v)) :
          n \in {IF k = 0 THEN read_number(s, i, 10, 3, 256)
                 ELSE IF At(s, i, ".") THEN read_number(s, i + 1, 10, 3, 256)
                 ELSE NoRead}})

read_ipv4_addr(s, i) == ReadOctets(s, i, 0, <<>>)

\* read_groups of Parser::read_ipv6_addr: up to limit groups of at most four
\* hex digits separated by colons, the last two of which may be written as an
\* IPv4 address
RECURSIVE read_groups(_, _, _, _, _)
read_groups(s, pos, k, limit, acc) ==
    IF k >= limit THEN [n |-> k, ipv4 |-> FALSE, pos |-> pos, v |-> acc]
    ELSE Only({Only({IF v4.ok
                     THEN [n |-> k + 2, ipv4 |-> TRUE, pos |-> v4.pos,
                           v |-> acc \o <<v4.v[1] * 256 + v4.v[2],
                                          v4.v[3] * 256 + v4.v[4]>>]
                     ELSE IF g.ok
                     THEN read_groups(s, g.pos, k + 1, limit, Append(acc, g.v))
                     ELSE [n |-> k, ipv4 |-> FALSE, pos |-> pos, v |-> acc] :
                     v4 \in {IF k < limit - 1 /\ start # 0
                             THEN read_ipv4_addr(s, start) ELSE NoRead},
                     g \in {IF start # 0 THEN read_number(s, start, 16, 4, 65536)
                            ELSE NoRead}}) :
               start \in {IF k = 0 THEN pos
                          ELSE IF At(s, pos, ":") THEN pos + 1 ELSE 0}})

Zeros(n) == [k \in 1..n |-> 0]

\* The part of an IPv6 address after its "::"
ReadTail(s, head) ==
    Only({Read(tail.pos, head.v \o Zeros(8 - head.n - tail.n) \o tail.v) :
          tail \in {read_groups(s, head.pos + 2, 0, 8 - (head.n + 1), <<>>)}})

\* Parser::read_ipv6_addr
read_ipv6_addr(s, i) ==
    Only({IF head.n = 8 THEN Read(head.pos, head.v)
          ELSE IF head.ipv4 THEN NoRead
          ELSE IF ~(At(s, head.pos, ":") /\ At(s, head.pos + 1, ":")) THEN NoRead
          ELSE ReadTail(s, head) :
          head \in {read_groups(s, i, 0, 8, <<>>)}})

AtEof(s, r) == r.ok /\ r.pos = Len(s) + 1

\* IpAddr::from_str (src/src/name.rs:103): an IPv4 or an IPv6 literal
ParseIpAddr(s) ==
    Only({IF a.ok THEN (IF AtEof(s, a) THEN Some(<<"V4", a.v>>) ELSE NoneOpt)
          ELSE IF AtEof(s, b) THEN Some(<<"V6", b.v>>) ELSE NoneOpt :
          a \in {read_ipv4_addr(s, 1)}, b \in {read_ipv6_addr(s, 1)}})

SockAddr(ip, port) == [ip |-> ip, port |-> port]

\* The port after an address that ends before position i
ReadPort(s, r, i) ==
    IF r.ok /\ i # 0 THEN read_number(s, i, 10, 0, 65536) ELSE NoRead

\* SocketAddr::from_str (src/src/name.rs:105): ip:port or [ipv6]:port
ParseSocketAddr(s) ==
    Only({Only({IF ap.ok
                THEN (IF AtEof(s, ap) THEN Some(SockAddr(<<"V4", a.v>>, ap.v))
                      ELSE NoneOpt)
                ELSE IF AtEof(s, bp) THEN Some(SockAddr(<<"V6", b.v>>, bp.v))
                ELSE NoneOpt :
                ap \in {ReadPort(s, a, IF a.ok /\ At(s, a.pos, ":")
                                       THEN a.pos + 1 ELSE 0)},
                bp \in {ReadPort(s, b, IF b.ok /\ At(s, b.pos, "]")
                                           /\ At(s, b.pos + 1, ":")
                                       THEN b.pos + 2 ELSE 0)}}) :
          a \in {read_ipv4_addr(s, 1)},
          b \in {IF At(s, 1, "[") THEN read_ipv6_addr(s, 2) ELSE NoRead}})

\* A name check that lets every character pass
Name_from_str_any_char(s) == ValidName(s)

\* Name::from_str of abstract_ns: letters, digits, '-', '_' and single dots
\* between the labels
Name_from_str(s) ==
    ValidName(s) /\ \A i \in 1..Len(s) : s[i] \in {"1", "h", "_", Dot}

\* u16::from_str: digits only, a value below 65536
ParsePort(s) ==
    Only({IF AtEof(s, n) THEN Some(n.v) ELSE NoneOpt :
          n \in {read_number(s, 1, 10, 0, 65536)}})

NoIp == <<"none", <<>>>>
IAddr(sa) == [t |-> "Addr", name |-> <<>>, ip |-> sa.ip, port |-> sa.port]
IHostPort(name, port) == [t |-> "HostPort", name |-> name, ip |-> NoIp, port |-> port]
IService(name) == [t |-> "Service", name |-> name, ip |-> NoIp, port |-> NoPort]
ParseErr(kind, x) == [t |-> kind, name |-> x, ip |-> NoIp, port |-> NoPort]

find(x, c) == Min({i \in 1..Len(x) : x[i] = c})
contains(x, c) == \E i \in 1..Len(x) : x[i] = c
starts_with(x, c) == At(x, 1, c)

\* The host and the port around the first colon
SplitHostPort(x) ==
    Only({IF ~Name_from_str(SubSeq(x, 1, find(x, ":") - 1))
          THEN ParseErr("ErrName", x)
          ELSE IF ~IsSome(port) THEN ParseErr("ErrPort", x)
          ELSE IHostPort(SubSeq(x, 1, find(x, ":") - 1), Unwrap(port)) :
          port \in {ParsePort(SubSeq(x, find(x, ":") + 1, Len(x)))}})

\* A parser that splits at the colon before it looks for the underscore
parse_split_first(x, default_port) ==
    Only({IF IsSome(ip) THEN IAddr(SockAddr(Unwrap(ip), default_port))
          ELSE IF IsSome(sa) THEN IAddr(Unwrap(sa))
          ELSE IF contains(x, ":") THEN SplitHostPort(x)
          ELSE IF starts_with(x, "_")
          THEN (IF Name_from_str(x) THEN IService(x) ELSE ParseErr("ErrName", x))
          ELSE IF Name_from_str(x) THEN IHostPort(x, default_port)
          ELSE ParseErr("ErrName", x) :
          ip \in {ParseIpAddr(x)}, sa \in {ParseSocketAddr(x)}})

\* AutoName::Auto(x).parse(default_port)
parse(x, default_port) ==
    Only({IF IsSome(ip) THEN IAddr(SockAddr(Unwrap(ip), default_port))
          ELSE IF IsSome(sa) THEN IAddr(Unwrap(sa))
          ELSE IF starts_with(x, "_")
          THEN (IF Name_from_str(x) THEN IService(x) ELSE ParseErr("ErrName", x))
          ELSE IF contains(x, ":") THEN SplitHostPort(x)
          ELSE IF Name_from_str(x) THEN IHostPort(x, default_port)
          ELSE ParseErr("ErrName", x) :
          ip \in {ParseIpAddr(x)}, sa \in {ParseSocketAddr(x)}})

AutoInit ==
    /\ EngineInit
    /\ suffixIn = [name |-> <<>>, keys |-> {}] /\ suffixOut = NoneOpt
    /\ auto \in {[AutoIdle EXCEPT !.in = x] : x \in AutoStrings}

ApplyParse ==
    /\ auto.out = NoneOpt
    /\ auto' = [auto EXCEPT !.out = Some(parse(auto.in, DefaultPort))]
    /\ UNCHANGED <<engine, pc, engWoken, tableAlive, curCfg, cfgQueue,
                   cfgEnded, installs, requests, futures, slot, query, multi,
                   submitted, procLog, yields, suffixIn, suffixOut, slotTrace,
                   chan, fuse, ival>>

SpecAuto == AutoInit /\ [][ApplyParse]_vars

Str_ip4 == <<"1", ".", "1", ".", "1", ".", "1">>
Str_ip6 == <<":", ":", "1">>
Ip4_1111 == <<"V4", <<1, 1, 1, 1>>>>
Ip6_1 == <<"V6", <<0, 0, 0, 0, 0, 0, 0, 1>>>>

\* The rule of the classification that applies first to the string
FirstRule(x) ==
    IF IsSome(ParseIpAddr(x)) THEN "ip"
    ELSE IF IsSome(ParseSocketAddr(x)) THEN "socket"
    ELSE IF starts_with(x, "_") THEN "service"
    ELSE IF contains(x, ":") THEN "colon"
    ELSE "plain"

BeforeColon(x) == SubSeq(x, 1, find(x, ":") - 1)
AfterColon(x) == SubSeq(x, find(x, ":") + 1, Len(x))

\* What the rule gives for the string; a rule whose name or port does not
\* parse gives an error and no later rule is tried
Classified(x, out) ==
    CASE FirstRule(x) = "ip" ->
            out = IAddr(SockAddr(Unwrap(ParseIpAddr(x)), DefaultPort))
      [] FirstRule(x) = "socket" -> out = IAddr(Unwrap(ParseSocketAddr(x)))
      [] FirstRule(x) = "service" ->
            IF Name_from_str(x) THEN out = IService(x) ELSE out.t = "ErrName"
      [] FirstRule(x) = "colon" ->
            IF Name_from_str(BeforeColon(x)) /\ IsSome(ParsePort(AfterColon(x)))
            THEN out = IHostPort(BeforeColon(x), Unwrap(ParsePort(AfterColon(x))))
            ELSE out.t \in {"ErrName", "ErrPort"}
      [] OTHER ->
            IF Name_from_str(x) THEN out = IHostPort(x, DefaultPort)
            ELSE out.t = "ErrName"

\* The classification of the strings whose reading is known by heart
KnownCases(x, out) ==
    /\ x = Str_ip4 => out = IAddr(SockAddr(Ip4_1111, DefaultPort))
    /\ x = Str_ip6 => out = IAddr(SockAddr(Ip6_1, DefaultPort))
    /\ x = Str_ip6 \o <<":", "1">>
          => out = IAddr(SockAddr(<<"V6", <<0, 0, 0, 0, 0, 0, 1, 1>>>>,
                                  DefaultPort))
    /\ x = Str_ip6 \o <<":">> \o Str_ip4
          => out = IAddr(SockAddr(<<"V6", <<0, 0, 0, 0, 0, 1, 257, 257>>>>,
                                  DefaultPort))
    /\ x = Str_ip4 \o <<":", "1">> => out = IAddr(SockAddr(Ip4_1111, 1))
    /\ x = <<"[">> \o Str_ip6 \o <<"]", ":", "1", "1">>
          => out = IAddr(SockAddr(Ip6_1, 11))
    /\ x = <<"[">> \o Str_ip6 \o <<"]">> => out.t = "ErrName"
    /\ x = <<"_", "h", ".", "1">> => out = IService(x)
    /\ x = <<"h", ":", "1", "1">> => out = IHostPort(<<"h">>, 11)
    /\ x = <<"h">> \o Str_ip6 => out.t = "ErrPort"
    /\ x = <<"1", ".", "1">> => out = IHostPort(x, DefaultPort)
    /\ x = <<"h", ".", "1">> => out = IHostPort(x, DefaultPort)
    /\ x = <<"h", ".", ".", "1">> => out.t = "ErrName"
    /\ x = Str_ip4 \o <<"1">>
          => out = IAddr(SockAddr(<<"V4", <<1, 1, 1, 11>>>>, DefaultPort))
    /\ x = Str_ip4 \o <<"h">> => out = IHostPort(x, DefaultPort)

\* C29: the parser classifies a string by the first rule that applies: an IP
\* literal gives the address with the default port, a socket address gives
\* that address, a leading '_' gives the service of the whole string, a ':'
\* gives the host before the first ':' with the port after it, anything else
\* gives the host with the default port
C29_ClassifiedByFirstRule ==
    IsSome(auto.out) =>
        /\ Classified(auto.in, Unwrap(auto.out))
        /\ KnownCases(auto.in, Unwrap(auto.out))

\* "h:11" has been parsed into the host h with the port 11
C29_Witness ==
    /\ auto.in = <<"h", ":", "1", "1">>
    /\ auto.out = Some(IHostPort(<<"h">>, 11))

\* C30: a string that starts with '_' and holds a ':' is rejected as an
\* invalid name; it is neither a service nor a host with a port
C30_ServiceWithPortRejected ==
    (IsSome(auto.out) /\ starts_with(auto.in, "_") /\ contains(auto.in, ":"))
        => Unwrap(auto.out) = ParseErr("ErrName", auto.in)

\* "_h:1" has been parsed
C30_Witness ==
    /\ auto.in = <<"_", "h", ":", "1">>
    /\ auto.out = Some(ParseErr("ErrName", auto.in))

(***************************************************************************)
(* Router::resolve_auto (src/src/router.rs:224-266)                        *)
(***************************************************************************)
\* The strings given to resolve_auto
AutoInputs ==
    {Str_ip4, <<"[">> \o Str_ip6 \o <<"]", ":", "1", "1">>,
     <<"h", ":", "1", "1">>, <<"_", "h">>, <<"_", "h", ":", "1">>}

\* The address of a literal, as an Address of one socket address
LiteralAddress(parsed) == {<<parsed.ip, parsed.port>>}

\* A resolve_auto that asks the engine for a literal address too
auto_reply_via_engine(parsed, open) ==
    IF parsed.t \in {"HostPort", "Service", "Addr"}
    THEN (IF open THEN NoneOpt ELSE Some([t |-> "ResolverIsDown", v |-> {}]))
    ELSE Some([t |-> "InvalidName", v |-> {}])

\* What resolve_auto sends on the oneshot before it returns: the address of a
\* literal, the error of the parser, or the failure of unbounded_send
auto_reply(parsed, open) ==
    CASE parsed.t = "Addr" -> Some([t |-> "ok", v |-> LiteralAddress(parsed)])
      [] parsed.t \in {"HostPort", "Service"} ->
            IF open THEN NoneOpt ELSE Some([t |-> "ResolverIsDown", v |-> {}])
      [] OTHER -> Some([t |-> "InvalidName", v |-> {}])

\* The kind of request resolve_auto sends for a name
auto_kind(parsed) ==
    IF parsed.t = "Service" THEN "Resolve" ELSE "ResolveHostPort"

AutoCall(x, q) ==
    [in |-> x, q |-> q, up |-> engine = "running", cfg |-> IsSome(curCfg)]

ResolveAuto ==
    /\ pc = "idle" /\ tableAlive
    /\ \E q \in Queries, x \in AutoInputs :
        /\ query[q].st = "free"
        /\ \A p \in Queries : p < q => query[p].st # "free"
        /\ \E parsed \in {parse(x, DefaultPort)} :
           \E now \in {auto_reply(parsed, InboxOpen)} :
           \E rec \in {[FreeQuery EXCEPT !.kind = auto_kind(parsed),
                                         !.name = parsed.name,
                                         !.port = parsed.port]} :
              /\ IF IsSome(now)
                 THEN /\ query' = [query EXCEPT ![q] =
                                     [rec EXCEPT !.st = "done",
                                                 !.reply = Unwrap(now)]]
                      /\ UNCHANGED <<requests, engWoken>>
                 ELSE /\ requests' = Append(requests,
                             Request(rec.kind, rec.name, rec.port, q,
                                     submitted + 1))
                      /\ query' = [query EXCEPT ![q] = [rec EXCEPT !.st = "queued"]]
                      /\ engWoken' = (engWoken \/ InboxRegistered)
              /\ auto' = [in |-> x, out |-> Some(parsed), sent |-> ~IsSome(now),
                          calls |-> Append(auto.calls, AutoCall(x, q))]
    /\ submitted' = submitted + 1
    /\ UNCHANGED <<engine, pc, tableAlive, curCfg, cfgQueue, cfgEnded, installs,
                   futures, slot, multi, procLog, yields, suffixIn, suffixOut,
                   slotTrace, chan, fuse, ival>>

NextAuto ==
    \/ EnginePoll \/ EngineRequest \/ PollConfig \/ PollSendResult
    \/ EngineReturn \/ ResolveAuto \/ ConfigArrive \/ ConfigEnd
    \/ BackendAnswer

SpecResolveAuto == Init /\ [][NextAuto]_vars

IsLiteral(x) == FirstRule(x) \in {"ip", "socket"}

LiteralOf(x) ==
    IF FirstRule(x) = "ip" THEN SockAddr(Unwrap(ParseIpAddr(x)), DefaultPort)
    ELSE Unwrap(ParseSocketAddr(x))

\* Every call made on a literal has its reply: the address of the literal
LiteralsReplied ==
    \A i \in 1..Len(auto.calls) :
        IsLiteral(auto.calls[i].in) =>
            /\ query[auto.calls[i].q].st = "done"
            /\ query[auto.calls[i].q].reply =
                  [t |-> "ok", v |-> {<<LiteralOf(auto.calls[i].in).ip,
                                        LiteralOf(auto.calls[i].in).port>>}]
            /\ query[auto.calls[i].q].backend = "none"

\* A call on a literal puts nothing in the inbox, starts no future of a
\* back-end and does not wake the engine
LiteralCall ==
    (Len(auto'.calls) > Len(auto.calls) /\ IsLiteral(auto'.in)) =>
        /\ requests' = requests /\ futures' = futures
        /\ engWoken' = engWoken
        /\ ~auto'.sent

\* C27: resolve_auto on a literal IP or socket address replies with that
\* address (a bare IP with the default port) in the call, with no request to
\* the engine and no back-end call, whether no config has arrived yet or the
\* engine has terminated
C27_LiteralRepliedAtOnce == []LiteralsReplied /\ [][LiteralCall]_vars

\* "1.1.1.1" was resolved before the first config and again after the engine
\* had terminated, both times to 1.1.1.1:80
C27_Witness ==
    /\ Len(auto.calls) = 2
    /\ auto.calls[1] = [in |-> Str_ip4, q |-> 1, up |-> TRUE, cfg |-> FALSE]
    /\ auto.calls[2].in = Str_ip4 /\ ~auto.calls[2].up
    /\ query[1].reply = [t |-> "ok", v |-> {<<Ip4_1111, DefaultPort>>}]
    /\ query[2].reply = query[1].reply

(***************************************************************************)
(* The gate of the routine poll of the multi-name task                     *)
(***************************************************************************)
\* The step is a poll of the multi-name task that is neither a restart after
\* an install nor the Restart a new name list asks for
RoutinePoll ==
    /\ pc = "futures" /\ multi.st = "active" /\ multi'.st = "active"
    /\ \E t \in futures : t.kind = "Multi" /\ t.woken /\ ~t.notified
    /\ multi'.current = multi.current
    /\ ~(multi.input.t = "val" /\ multi.input.v # multi.current)

\* The step puts a value in the consumer slot of the multi-name task
ConsumerWritten ==
    \/ slot'[multi.tx].last # slot[multi.tx].last
    \/ slot[multi.tx].value = NoneOpt /\ slot'[multi.tx].value # NoneOpt
    \/ ~multi.emitted /\ multi'.emitted

\* The poll finds its timer fired, or in a watch slot a value that differs
\* from the last one of the entry
SomethingChanged ==
    \/ multi.timer = "fired"
    \/ \E n \in DOMAIN multi.items :
          /\ ~is_static(multi.items[n])
          /\ IsSome(slot[multi.items[n].rx].value)
          /\ slot[multi.items[n].rx].value # multi.items[n].v

PollGate ==
    (RoutinePoll /\ ConsumerWritten) =>
        /\ SomethingChanged
        /\ multi.timer # "armed" \/ AllComplete(multi'.items)
        /\ multi'.timer = "none"

\* C31: a routine poll of the multi-name task writes to the consumer slot
\* only if something changed in that poll (the convergence timer fired or an
\* entry took a value different from its last one) and either no timer is
\* armed or every entry is complete; with a timer armed and an entry
\* incomplete no poll writes.
C31_PollEmitsBehindGate == [][PollGate]_vars

\* Two names fed by back-ends, one config, no timer fired: the poll that
\* completed the second entry disarmed the timer and wrote the union
C31_Witness ==
    /\ multi.st = "active" /\ installs = 1 /\ yields = MaxYields
    /\ multi.timer = "none" /\ ~multi.elapsed
    /\ \E n1, n2 \in DOMAIN multi.items :
          /\ n1 # n2
          /\ ~is_static(multi.items[n1]) /\ is_complete(multi.items[n1])
          /\ ~is_static(multi.items[n2]) /\ is_complete(multi.items[n2])
    /\ slot[multi.tx].last.val = Some(UnionOfEntries(multi.items))

(***************************************************************************)
(* What a restart keeps of a single-name subscription                      *)
(***************************************************************************)
\* The step restarts the task t: a notified Subscr is polled, or the task
\* behind a fired restart timer
Restarted(t) ==
    /\ pc = "futures" /\ engine = "running" /\ engine' = "running"
    /\ t \in futures /\ t \notin futures' /\ t.woken
    /\ \/ t.kind = "Subscr" /\ t.notified
       \/ t.kind = "Timeout" /\ t.fired

\* The task a new subscribe call leaves in the engine: a Subscr on a new
\* stream of the back-end, or the no-op task of the NullResolver
FreshTask(b, t) ==
    IF b = Null
    THEN NoOpTask(t.host, t.name, t.tx)
    ELSE [BaseTask EXCEPT !.kind = "Subscr", !.host = t.host, !.name = t.name,
                          !.tx = t.tx, !.subscriber = b]

KeepsOrResubscribes ==
    \A t \in futures :
        (Restarted(t) /\ ~IsSome(Static(Cfg, t.host, t.name))) =>
            /\ slot'[t.tx].senders = slot[t.tx].senders
            /\ slot'[t.tx].last = slot[t.tx].last
            /\ IF /\ t.kind = "Subscr" /\ ~t.done
                  /\ Subscriber(Cfg, t.host, t.name) = t.subscriber
               THEN futures' = (futures \ {t}) \cup {[t EXCEPT !.notified = FALSE]}
               ELSE futures' = (futures \ {t})
                       \cup {FreshTask(Subscriber(Cfg, t.host, t.name), t)}

\* C32: a single-name subscription restarted under a config with no static
\* entry for its name keeps its back-end stream, with what the stream holds,
\* exactly when the suffix lookup gives the handle it has and the stream is
\* not done; otherwise the stream is dropped and the subscribe of the
\* back-end now selected is called with the same consumer slot.
C32_RestartKeepsSameBackend == [][KeepsOrResubscribes]_vars

\* A task that has emitted a value of its back-end under an earlier config
\* is still on that stream after the install, the restart done
C32_Witness ==
    /\ yields = 1 /\ IsSome(curCfg)
    /\ \E t \in futures :
          /\ t.kind = "Subscr" /\ ~t.notified /\ ~t.done
          /\ slot[t.tx].last.src = t.subscriber
          /\ IsSome(slot[t.tx].last.cfg) /\ slot[t.tx].last.cfg # curCfg

(***************************************************************************)
(* Restarts after an install                                               *)
(***************************************************************************)
SubscrFutures(fs) == {f \in fs : f.kind \in {"Subscr", "NoOp", "Multi"}}

\* The step is the UpdateConfig arm of the engine
InstallStep ==
    /\ pc = "futures" /\ cfgQueue # <<>>
    /\ curCfg' = Some(Head(cfgQueue)) /\ cfgQueue' = Tail(cfgQueue)

\* An install signals the notifier of every subscription task
InstallNotifiesAll ==
    InstallStep => \A f \in SubscrFutures(futures') : f.notified /\ f.woken

\* The poll of a notified task is its restart under the config now
\* installed: the task's stream and inputs are not polled
NotifiedIsRestarted ==
    \A t \in SubscrFutures(futures) :
        (/\ pc = "futures" /\ engine = "running" /\ engine' = "running"
         /\ t.notified /\ t.woken /\ t \notin futures') =>
            /\ futures' = Continuation_restart(Unregister([World EXCEPT !.futures = @ \ {t}], t.tx), Cfg, t).futures
            /\ slot' = Continuation_restart(Unregister([World EXCEPT !.futures = @ \ {t}], t.tx), Cfg, t).slot
            /\ multi' = Continuation_restart(Unregister([World EXCEPT !.futures = @ \ {t}], t.tx), Cfg, t).multi
            /\ t.kind = "Subscr" =>
                  \A f \in futures' : (f.kind = "Subscr" /\ f.tx = t.tx) =>
                      f.item = IF f.subscriber = t.subscriber /\ ~t.done
                               THEN t.item ELSE NoItem
            /\ t.kind = "Multi" => multi'.input = multi.input

\* Only an install notifies: a task spawned by a restart waits for the next
\* install
NotifiedOnlyByInstall ==
    ~InstallStep =>
        \A f \in SubscrFutures(futures') :
            f.notified => \E g \in futures :
                             g.notified /\ g.kind = f.kind /\ g.tx = f.tx

SomeNotified == \E f \in SubscrFutures(futures) : f.notified

\* C33: an install notifies every subscription task; a notified task is
\* restarted under the config installed last, before it polls its stream or
\* its inputs again; the task the restart spawns is not notified until the
\* next install.
C33_RestartAfterInstall ==
    /\ [][InstallNotifiesAll /\ NotifiedIsRestarted /\ NotifiedOnlyByInstall]_vars
    /\ SomeNotified ~> (engine # "running" \/ ~SomeNotified)

\* After the second install the multi-name task and the task of one of its
\* names, parked by the static entry the install brought, wait for the next
\* install
C33_Witness ==
    /\ pc = "idle" /\ engine = "running" /\ installs = 2 /\ cfgQueue = <<>>
    /\ curCfg = Some(CfgStatic)
    /\ \E m, f \in futures :
          /\ m.kind = "Multi" /\ ~m.notified
          /\ f.kind = "NoOp" /\ ~f.notified /\ slot[f.tx].watch
          /\ slot[f.tx].last.src = "static"
          /\ slot[f.tx].last.cfg = curCfg

(***************************************************************************)
(* The senders of the watch slots                                          *)
(***************************************************************************)
\* The tasks of the engine that hold the sender of the slot
Holders(s) ==
    {f \in futures : f.tx = s /\ f.kind \in {"Subscr", "NoOp", "Timeout"}}

\* Every watch slot of the live entries has its receiver, its one sender
\* and one task holding that sender
WatchSlotsHeld ==
    multi.st = "active" =>
        \A s \in LiveRx(multi.items) :
            /\ slot[s].watch /\ slot[s].rx /\ ~slot[s].ended
            /\ slot[s].senders = 1
            /\ Cardinality(Holders(s)) = 1

\* C34: while the multi-name task is alive no watch slot of its entries
\* yields the end of the stream: the per-name task that feeds the slot holds
\* the sender while it is active, restarted, awaiting its restart timer or
\* parked; the unreachable!() branches of the poll are not reached.
C34_WatchSlotsNeverEnd == WatchSlotsHeld /\ engine # "panicked"

\* The stream behind a watch slot has ended and its task waits for the
\* restart timer, the sender with it
C34_Witness ==
    /\ multi.st = "active"
    /\ \E s \in LiveRx(multi.items) :
          \E f \in futures : f.tx = s /\ f.kind = "Timeout" /\ slot[s].senders = 1
    /\ \E s \in LiveRx(multi.items) :
          \E f \in futures : f.tx = s /\ f.kind = "NoOp"

(***************************************************************************)
(* Equal successive values                                                 *)
(***************************************************************************)
\* The step is a poll of the consumer that takes a value out of its slot
Delivered(s) ==
    /\ slot[s].used /\ ~slot[s].watch /\ slot[s].rx /\ slot'[s].rx
    /\ IsSome(slot[s].value) /\ slot'[s].value = NoneOpt
    /\ slot'[s].got = slot[s].last

\* C35 (as stated): the values a consumer of a subscription takes out of its
\* slot hold no two equal successive values.
C35_NoEqualSuccessive ==
    [][\A s \in Slots : Delivered(s) => slot'[s].got.val # slot[s].got.val]_vars

(***************************************************************************)
(* What a restart keeps of the entries of the multi-name task              *)
(***************************************************************************)
InList(list) == {list[i] : i \in 1..Len(list)}

\* The entry of the name was live before the step and the name is in the
\* list the restart runs with
KeptLive(n) ==
    /\ n \in DOMAIN multi.items /\ ~is_static(multi.items[n])
    /\ n \in InList(multi'.current)

\* A kept entry has its watch slot and its last value, the slot has its
\* receiver, and no task was spawned for it
EntryKept(n) ==
    /\ n \in DOMAIN multi'.items
    /\ multi'.items[n] = multi.items[n]
    /\ slot'[multi.items[n].rx].rx
    /\ slot'[multi.items[n].rx].senders = slot[multi.items[n].rx].senders
    /\ {f \in futures' : f.tx = multi.items[n].rx}
          = {f \in futures : f.tx = multi.items[n].rx}

\* The entry of a name classified afresh under the config of the restart
EntryAfresh(n) ==
    IF IsSome(Static(Cfg', n.host, n.name))
    THEN /\ n \in DOMAIN multi'.items
         /\ multi'.items[n] =
               IF n.host THEN StaticHost(Unwrap(Static(Cfg', n.host, n.name)), n.port)
               ELSE StaticAddr(Unwrap(Static(Cfg', n.host, n.name)))
    ELSE IF Subscriber(Cfg', n.host, n.name) # Null
    THEN /\ n \in DOMAIN multi'.items
         /\ multi'.items[n].kind = (IF n.host THEN "Host" ELSE "Addr")
         /\ multi'.items[n].v = NoneOpt
         /\ ~slot[multi'.items[n].rx].used
         /\ slot'[multi'.items[n].rx].watch /\ slot'[multi'.items[n].rx].rx
         /\ \E f \in futures' :
               /\ f.tx = multi'.items[n].rx /\ f.kind = "Subscr"
               /\ f.subscriber = Subscriber(Cfg', n.host, n.name)
    ELSE n \notin DOMAIN multi'.items

\* The receiver of a discarded live entry is dropped
EntryDiscarded(n) ==
    /\ n \notin DOMAIN multi'.items
    /\ ~is_static(multi.items[n]) => ~slot'[multi.items[n].rx].rx

RestartKeeps ==
    MultiRestarted =>
        /\ DOMAIN multi'.items \subseteq InList(multi'.current)
        /\ \A n \in InList(multi'.current) :
              IF KeptLive(n) THEN EntryKept(n) ELSE EntryAfresh(n)
        /\ \A n \in DOMAIN multi.items \ InList(multi'.current) :
              EntryDiscarded(n)

\* C36: a restart of the multi-name task keeps a live entry whose name is
\* still in the list, with its watch slot and last value and without a new
\* subscription; it discards the entries of the names that left the list,
\* so the keys of the entry map are names of the list; it classifies the
\* static entries and the new names afresh under the new config.
C36_RestartKeepsLiveEntries == [][RestartKeeps]_vars

(***************************************************************************)
(* The stream of an interval subscriber (src/src/subscribe_ext.rs)         *)
(***************************************************************************)
MaxResolves == 3
MaxIntervalPolls == 6

Pending == [st |-> "pending", v |-> {}]
Spent == [st |-> "spent", v |-> {}]
Dropped == [st |-> "dropped", v |-> {}]

\* What the future of a resolve holds once the resolver has answered
Answers == {[st |-> "ready", v |-> v] : v \in IpLists} \cup {[st |-> "err", v |-> {}]}

\* What a resolver returns from resolve(): a future that is pending, or one
\* that is complete already
NewFutures == {Pending} \cup Answers

\* What a future gives when it is polled after it has completed, which its
\* contract leaves open: anything a poll can give, or a panic (as
\* futures::future::FutureResult does)
Panics == [st |-> "panic", v |-> {}]
PolledAgain == NewFutures \cup {Panics}

\* The intervals of the run: zero, whose Timeout is ready at its first poll,
\* and one that takes time to elapse
Intervals == {0, 1}

\* Timeout::new(self.internal.interval, ..)
Timeout_new(interval) == IF interval = 0 THEN "fired" ELSE "armed"

Event(e, v) == [ev |-> e, v |-> v]

\* SubscribeExt::interval_subscriber(interval, ..) followed by
\* IntervalSubscriber::subscribe / subscribe_host, where imm is the future
\* the resolver returns
IntervalSubscriber_subscribe(imm, interval) ==
    [state |-> "Waiting", fut |-> 1, last_value |-> NoneOpt, timer |-> "none",
     futs |-> <<imm>>, log |-> <<Event("resolve", {})>>, res |-> <<>>,
     interval |-> interval]

\* A pass of the loop that returns every value the resolver gives
IntervalResolver_pass_no_compare(s, imm, again) ==
    IF s.state = "Sleeping"
    THEN IF s.timer # "fired"
         THEN [s |-> s, r |-> [r |-> "NotReady", v |-> {}], again |-> FALSE]
         ELSE [s |-> [s EXCEPT !.state = "Waiting", !.timer = "none",
                               !.futs = Append(@, imm), !.fut = Len(s.futs) + 1,
                               !.log = @ \o <<Event("fire", {}), Event("resolve", {})>>],
               r |-> [r |-> "NotReady", v |-> {}], again |-> TRUE]
    ELSE \* Waiting
      Only({IF f.st = "pending"
            THEN [s |-> s, r |-> [r |-> "NotReady", v |-> {}], again |-> FALSE]
            ELSE IF f.st = "panic"
            THEN [s |-> [s EXCEPT !.state = "Panicked",
                                  !.log = Append(@, Event("panic", {}))],
                  r |-> [r |-> "Panic", v |-> {}], again |-> FALSE]
            ELSE IF f.st = "err"
            THEN [s |-> [s EXCEPT !.futs[s.fut] = Spent,
                                  !.log = Append(@, Event("fail", {}))],
                  r |-> [r |-> "Err", v |-> {}], again |-> FALSE]
            ELSE [s |-> [s EXCEPT !.last_value = Some(f.v),
                                  !.state = "Sleeping",
                                  !.timer = Timeout_new(s.interval),
                                  !.futs[s.fut] = Dropped, !.fut = 0,
                                  !.log = @ \o <<Event("done", f.v), Event("arm", {})>>],
                  r |-> [r |-> "Ready", v |-> f.v],
                  again |-> FALSE] :
            f \in {IF s.futs[s.fut].st = "spent" THEN again ELSE s.futs[s.fut]}})

\* One pass of the loop of IntervalResolver::poll and of
\* IntervalHostResolver::poll, which are the same code.  imm is the future
\* the resolver returns if a resolve is started; again is what the future of
\* the stream returns if it is polled after it has failed, which its
\* contract leaves open.  The result says whether the loop goes on.
IntervalResolver_pass(s, imm, again) ==
    IF s.state = "Sleeping"
    THEN IF s.timer # "fired"
         THEN [s |-> s, r |-> [r |-> "NotReady", v |-> {}], again |-> FALSE]
         ELSE [s |-> [s EXCEPT !.state = "Waiting", !.timer = "none",
                               !.futs = Append(@, imm), !.fut = Len(s.futs) + 1,
                               !.log = @ \o <<Event("fire", {}), Event("resolve", {})>>],
               r |-> [r |-> "NotReady", v |-> {}], again |-> TRUE]
    ELSE \* Waiting
      Only({IF f.st = "pending"
            THEN [s |-> s, r |-> [r |-> "NotReady", v |-> {}], again |-> FALSE]
            ELSE IF f.st = "panic"
            THEN [s |-> [s EXCEPT !.state = "Panicked",
                                  !.log = Append(@, Event("panic", {}))],
                  r |-> [r |-> "Panic", v |-> {}], again |-> FALSE]
            ELSE IF f.st = "err"
            THEN [s |-> [s EXCEPT !.futs[s.fut] = Spent,
                                  !.log = Append(@, Event("fail", {}))],
                  r |-> [r |-> "Err", v |-> {}], again |-> FALSE]
            ELSE [s |-> [s EXCEPT !.last_value = Some(f.v),
                                  !.state = "Sleeping",
                                  !.timer = Timeout_new(s.interval),
                                  !.futs[s.fut] = Dropped, !.fut = 0,
                                  !.log = @ \o <<Event("done", f.v), Event("arm", {})>>],
                  r |-> [r |-> "Ready", v |-> f.v],
                  again |-> s.last_value = Some(f.v)] :
            f \in {IF s.futs[s.fut].st = "spent" THEN again ELSE s.futs[s.fut]}})

\* IntervalResolver::poll / IntervalHostResolver::poll, where imms are the
\* futures the resolver returns for the resolves the call starts, in their
\* order; a call that would start more resolves than that is beyond the run
RECURSIVE IntervalResolver_poll(_, _, _)
IntervalResolver_poll(s, imms, again) ==
    IF s.state = "Sleeping" /\ s.timer = "fired" /\ imms = <<>>
    THEN [s |-> s, r |-> [r |-> "Beyond", v |-> {}]]
    ELSE Only({IF p.again
               THEN IntervalResolver_poll(p.s,
                        IF Len(p.s.futs) > Len(s.futs) THEN Tail(imms) ELSE imms,
                        again)
               ELSE [s |-> p.s, r |-> p.r] :
               p \in {IntervalResolver_pass(s,
                          IF imms = <<>> THEN Pending ELSE Head(imms), again)}})

\* The futures a resolver may return for the resolves left in the run
RECURSIVE FutureSeqs(_)
FutureSeqs(n) ==
    IF n = 0 THEN {<<>>}
    ELSE {<<f>> \o q : f \in NewFutures, q \in FutureSeqs(n - 1)}

\* The consumer makes the stream
IntervalSubscribe ==
    /\ ival.state = "Idle"
    /\ \E imm \in NewFutures, interval \in Intervals :
          ival' = IntervalSubscriber_subscribe(imm, interval)
    /\ UNCHANGED <<engine, pc, engWoken, tableAlive, curCfg, cfgQueue,
                   cfgEnded, installs, requests, futures, slot, query, multi,
                   submitted, procLog, yields, suffixIn, suffixOut, slotTrace,
                   chan, fuse, auto>>

\* The consumer polls the stream
IntervalPoll ==
    /\ ival.state \notin {"Idle", "Panicked"}
    /\ Len(ival.res) < MaxIntervalPolls
    /\ \E imms \in FutureSeqs(MaxResolves - Len(ival.futs)), again \in PolledAgain :
         \E o \in {IntervalResolver_poll(ival, imms, again)} :
            /\ o.r.r # "Beyond"
            /\ ival' = [o.s EXCEPT !.res = Append(@, o.r)]
    /\ UNCHANGED <<engine, pc, engWoken, tableAlive, curCfg, cfgQueue,
                   cfgEnded, installs, requests, futures, slot, query, multi,
                   submitted, procLog, yields, suffixIn, suffixOut, slotTrace,
                   chan, fuse, auto>>

\* The resolver answers a resolve
ResolveAnswer ==
    /\ \E i \in DOMAIN ival.futs, a \in Answers :
          /\ ival.futs[i].st = "pending"
          /\ ival' = [ival EXCEPT !.futs[i] = a]
    /\ UNCHANGED <<engine, pc, engWoken, tableAlive, curCfg, cfgQueue,
                   cfgEnded, installs, requests, futures, slot, query, multi,
                   submitted, procLog, yields, suffixIn, suffixOut, slotTrace,
                   chan, fuse, auto>>

\* The interval elapses
IntervalElapse ==
    /\ ival.timer = "armed"
    /\ ival' = [ival EXCEPT !.timer = "fired"]
    /\ UNCHANGED <<engine, pc, engWoken, tableAlive, curCfg, cfgQueue,
                   cfgEnded, installs, requests, futures, slot, query, multi,
                   submitted, procLog, yields, suffixIn, suffixOut, slotTrace,
                   chan, fuse, auto>>

NextInterval ==
    IntervalSubscribe \/ IntervalPoll \/ ResolveAnswer \/ IntervalElapse

SpecInterval == Init /\ [][NextInterval]_vars

IsReady(r) == r.r = "Ready"
IsDone(e) == e.ev = "done"

\* The values the stream has yielded, and the values its resolves gave
Yielded == SelectSeq(ival.res, IsReady)
Resolved == SelectSeq(ival.log, IsDone)

\* The resolves the resolver has not answered
InFlight == {i \in DOMAIN ival.futs : ival.futs[i].st = "pending"}

\* A resolve after the first is started by the firing of the timer that was
\* armed when the resolve before it completed
ResolveFollowsTimer ==
    \A i \in 2..Len(ival.log) :
        ival.log[i].ev = "resolve" =>
            /\ i >= 4
            /\ ival.log[i-1].ev = "fire"
            /\ ival.log[i-2].ev = "arm"
            /\ ival.log[i-3].ev = "done"

\* C37: the stream of an interval subscriber yields the first value resolved,
\* then only values that differ from the one it yielded last; it starts a
\* resolve only when the timer armed at the completion of the resolve before
\* has fired, so at most one resolve is in flight; and it never ends: a poll
\* gives no value yet, a value or the error of the resolve, and only a poll
\* made after a poll gave the error can panic, on the failed future.
C37_IntervalStream ==
    /\ Resolved # <<>> => (Yielded # <<>> /\ Yielded[1].v = Resolved[1].v)
    /\ \A i \in 1..Len(Yielded) - 1 : Yielded[i+1].v # Yielded[i].v
    /\ ResolveFollowsTimer
    /\ Cardinality(InFlight) <= 1
    /\ \A i \in DOMAIN ival.res :
          /\ ival.res[i].r \in {"NotReady", "Ready", "Err", "Panic"}
          /\ ival.res[i].r = "Panic" => \E j \in 1..(i-1) : ival.res[j].r = "Err"

\* Three resolves gave a value twice and then another, and the stream has
\* yielded two values
C37_Witness ==
    /\ Len(Resolved) = 3 /\ Len(Yielded) = 2
    /\ Resolved[1].v = Resolved[2].v /\ Resolved[3].v # Resolved[2].v
    /\ Yielded[2].v = Resolved[3].v

(***************************************************************************)
(* An install during the restart delay                                     *)
(***************************************************************************)
TasksOf(fs, s) == {f \in fs : f.tx = s /\ f.kind \in {"Subscr", "NoOp", "Timeout"}}

\* The task of a stream that has ended or failed is put behind a timer of
\* the restart_delay of the config current at the failure
DelayedBehindTimer ==
    \A t \in futures :
        (/\ pc = "futures" /\ engine = "running" /\ engine' = "running"
         /\ curCfg' = curCfg /\ cfgQueue' = cfgQueue
         /\ t.kind = "Subscr" /\ t.woken /\ ~t.notified
         /\ t.item.t \in {"end", "err"} /\ t \notin futures') =>
            \E d \in futures' :
                /\ d.kind = "Timeout" /\ d.tx = t.tx /\ ~d.notified
                /\ d.fired = (Cfg.restart_delay = 0)
                /\ TasksOf(futures', t.tx) = {d}

\* While it waits, a step of the engine leaves the task and its slot's
\* sender alone, an install included
WaitsThroughInstall ==
    \A t \in futures :
        (t.kind = "Timeout" /\ engine' = "running" /\ ~Restarted(t)) =>
            /\ \E d \in futures' :
                  /\ d = [t EXCEPT !.woken = d.woken, !.fired = d.fired]
                  /\ t.fired => d.fired
                  /\ TasksOf(futures', t.tx) = {d}
            /\ slot'[t.tx].last = slot[t.tx].last
            /\ slot'[t.tx].senders = slot[t.tx].senders

\* When the timer has fired the task is restarted once, under the config
\* installed at that moment
RestartedAtExpiry ==
    \A t \in futures :
        (t.kind = "Timeout" /\ Restarted(t)) =>
            /\ t.fired /\ curCfg' = curCfg
            /\ IF IsSome(Static(Cfg, t.host, t.name))
               THEN IF slot[t.tx].rx
                    THEN /\ slot'[t.tx].last =
                               [val |-> Static(Cfg, t.host, t.name),
                                src |-> "static", cfg |-> curCfg]
                         /\ TasksOf(futures', t.tx) = {NoOpTask(t.host, t.name, t.tx)}
                    ELSE TasksOf(futures', t.tx) = {}
               ELSE /\ slot'[t.tx].last = slot[t.tx].last
                    /\ TasksOf(futures', t.tx) =
                          {FreshTask(Subscriber(Cfg, t.host, t.name), t)}

Delayed == \E t \in futures : t.kind = "Timeout"

\* C38: a single-name subscription that waits for its restart delay is not
\* restarted by an install made meanwhile; when its timer fires it is
\* restarted once, under the config current at that moment, so a static
\* entry or a new back-end installed during the wait takes effect at the
\* expiry of the timer and not before.
C38_DelayedRestartAtExpiry ==
    /\ [][DelayedBehindTimer /\ WaitsThroughInstall /\ RestartedAtExpiry]_vars
    /\ Delayed ~> (engine # "running" \/ ~Delayed)

\* A task still waits for its timer after the engine has handled an install
\* of a config with a static entry for its name, which its slot has not got
C38_Witness ==
    /\ pc = "idle" /\ engine = "running" /\ cfgQueue = <<>> /\ IsSome(curCfg)
    /\ \E t \in futures :
          /\ t.kind = "Timeout" /\ ~t.fired /\ ~t.woken
          /\ IsSome(Static(Cfg, t.host, t.name))
          /\ slot[t.tx].rx /\ slot[t.tx].last.src # "static"
          /\ slot[t.tx].last.cfg # curCfg

(***************************************************************************)
(* The holder of the sender of a consumer slot                             *)
(***************************************************************************)
\* The subscribe requests in the inbox that carry the sender of the slot
Carriers(s) ==
    {i \in DOMAIN requests :
        requests[i].kind \in {"Subscribe", "HostSubscribe"} /\ requests[i].tx = s}

\* The slots of single-name subscriptions
SingleSlots == {s \in Slots : slot[s].used /\ slot[s].name # <<>>}

\* C39: the sender of a consumer slot is held by at most one task or
\* continuation of the engine, be it active, parked, waiting for its restart
\* timer or in the inbox: a restart moves the sender into the task that
\* replaces the restarted one, so no two tasks write to one slot.
C39_OneHolderPerSlot ==
    \A s \in SingleSlots :
        /\ Cardinality(Holders(s)) + Cardinality(Carriers(s)) <= 1
        /\ slot[s].senders <= 1
        /\ engine = "running" =>
              slot[s].senders = Cardinality(Holders(s)) + Cardinality(Carriers(s))

\* A slot has got a value from a back-end and then the static value of a
\* later config, and one parked task holds its sender
C39_Witness ==
    \E s \in SingleSlots :
        /\ engine = "running" /\ yields >= 1
        /\ slot[s].last.src = "static" /\ slot[s].got.src # "static"
        /\ IsSome(slot[s].got.val)
        /\ Cardinality(Holders(s)) = 1 /\ slot[s].senders = 1
        /\ \A f \in Holders(s) : f.kind = "NoOp"

(***************************************************************************)
(* What ends the engine                                                    *)
(***************************************************************************)
\* One query, one single-name subscription and one multi-name subscription
\* over one name, under a config with a fallthrough back-end; consumers and
\* router handles may go and a stream may yield or end; the back-end has not
\* answered the query and no restart timer has fired
StopScope ==
    /\ \A i \in 1..Len(cfgQueue) : cfgQueue[i] = CfgFall
    /\ installs <= 1 /\ yields <= 1
    /\ multi.input.t = "val" => multi.input.v = <<INameSvc>>
    /\ \A q \in Queries :
          query[q].st # "free" => (q = 1 /\ query[q].kind = "Resolve")
    /\ \A s \in Slots : (slot[s].used /\ slot[s].name # <<>> /\ ~slot[s].watch)
                            => slot[s].host

NextStop ==
    \/ EnginePoll \/ EngineRequest \/ PollConfig \/ PollSendResult
    \/ PollSubscr \/ PollMulti \/ PollTimeout \/ EngineReturn
    \/ (SubmitQuery /\ StopScope') \/ (Subscribe /\ StopScope')
    \/ (SubscribeStream /\ StopScope') \/ (ConfigArrive /\ StopScope')
    \/ (InputYield /\ StopScope') \/ (BackendYield /\ StopScope')
    \/ ConsumerPoll \/ ConsumerDrop \/ DropRouter \/ ConfigEnd

SpecStop == Init /\ [][NextStop]_vars

\* The step polls a subscription task that ends: it leaves the engine and no
\* task takes its place
TaskCompletes(t) ==
    /\ pc = "futures" /\ engine = "running"
    /\ curCfg' = curCfg /\ cfgQueue' = cfgQueue /\ pc' = "futures"
    /\ t.kind \in {"Subscr", "NoOp", "Multi"} /\ t.woken /\ ~t.notified
    /\ t \in futures
    /\ \A f \in futures' : f.tx # t.tx

\* The watch slots of the multi-name task
WatchOf(t) == IF t.kind = "Multi" THEN LiveRx(multi.items) ELSE {}

\* The end of a task leaves the engine running, and with it every other
\* task, every other slot and every query; the tasks that feed the watch
\* slots of a multi-name task that ends are notified
CompletionIsLocal ==
    \A t \in futures :
        TaskCompletes(t) =>
            /\ engine' = "running"
            /\ {f \in futures' : f.tx \notin WatchOf(t)}
                  = {f \in futures \ {t} : f.tx \notin WatchOf(t)}
            /\ {[f EXCEPT !.woken = TRUE] : f \in futures'}
                  = {[f EXCEPT !.woken = TRUE] : f \in futures \ {t}}
            /\ query' = query /\ requests' = requests
            /\ \A s \in Slots \ ({t.tx} \cup WatchOf(t)) : slot'[s] = slot[s]

\* The engine ends when the config stream has ended, or when the handles of
\* the router, which hold the table and the sender of the inbox, are gone
EndedByConfigOrInbox ==
    (engine = "running" /\ engine' # "running") =>
        /\ engine' = "done"
        /\ \/ pc = "futures" /\ cfgQueue = <<>> /\ cfgEnded
           \/ pc = "idle" /\ ~tableAlive

\* C40: the end of a subscription task, be it that the consumer is gone or
\* that the stream of name lists has ended or failed, does not end the
\* engine and touches no other subscription and no query; the engine ends
\* only with the config stream or with the request inbox.
C40_TaskEndKeepsEngine == [][CompletionIsLocal /\ EndedByConfigOrInbox]_vars

\* The multi-name task is gone and a single-name subscription has got a
\* value since, the engine running
C40_Witness ==
    /\ engine = "running" /\ multi.st = "gone"
    /\ \E s \in ConsumerSlots :
          /\ slot[s].senders = 1 /\ IsSome(slot[s].last.val)
          /\ \E f \in futures : f.tx = s
====
